---- MODULE Spec2Model ----
(***************************************************************************)
(* Model of the gopas core: the HTTP client (internal/client) and the      *)
(* session state container (internal/session).                             *)
(*                                                                         *)
(*   Spec      sequential use of the Session API (one caller at a time)    *)
(*   SpecDo    Client.Do over the request / transport-outcome space        *)
(*   SpecConc  goroutines calling Session accessors, one field access per  *)
(*             step, under the sync.RWMutex                                *)
(*   SpecConcFair  SpecConc under a fair scheduler, for one base URI       *)
(*   SpecNew   the constructors over base URLs of every shape              *)
(*   SpecAuth  pkg/authentication (NewSession, CloseSession) over the      *)
(*             Session and the Client                                      *)
(*   SpecOps   the resource operations (pkg/accounts, pkg/safes) and       *)
(*             GetServerInfo over the Session and the Client               *)
(*   SpecVer   the version helpers (internal/helpers) over bounded inputs  *)
(*   SpecRace  goroutines using a Session and its clone, which share one   *)
(*             Client, with the accesses to the Client's token as steps    *)
(***************************************************************************)
EXTENDS Integers, Sequences, FiniteSets, TLC

VARIABLES
    clients,    \* heap of *client.Client objects: allocated id -> Client struct
    sessions,   \* heap of *session.Session objects: allocated handle -> Session struct
    now,        \* the wall clock read by time.Now()
    newErr,     \* the error returned by the constructor (NoErr when it succeeded)
    last,       \* the most recent call: operation, receiver, arguments, return value
    inflight,   \* the Do call blocked in c.httpClient.Do (NoReq when there is none)
    calls,      \* number of calls the caller has made so far
    hist,       \* per session: what the caller last did to its authentication
                \* ("new", "auth", "closed") and the token it passed
    mu,         \* SpecConc: state of Session.mu of the shared session;
                \* SpecRace: per session, the goroutine inside its s.mu.Lock()
    procs,      \* SpecConc: per goroutine, the call in progress and its position
    shadow      \* SpecConc: the session as the calls would leave it if each
                \* ran alone, in the order they held the lock

vars == <<clients, sessions, now, newErr, last, inflight, calls, hist, mu, procs, shadow>>
concVars == <<mu, procs, shadow>>

----------------------------------------------------------------------------
(* Bounds and input domains *)

MaxTime == 2
MaxCalls == 4

Nil == "nil"
NoErr == "nil"
ZeroTime == 0

\* strings are sequences of characters; the host part is one opaque chunk
BaseURIs == { <<>>, <<"https://host">>, <<"https://host", "/">> }

\* (user, token, authMethod) argument triples of SetAuthenticated
AuthArgs == { <<"alice", "tok123", "CyberArk">>,
              <<"bob", "tok456", "LDAP">>,
              <<"carol", "", "RADIUS">> }
Versions == { "14.0" }
Commands == { "Get-PASAccount" }
Errs == { "testError" }

SessionIds == { "s1", "s2" }
ClientIds == { "c1" }

----------------------------------------------------------------------------
(* internal/client: construction and token accessors *)

APISuffix == <<"/PasswordVault/API">>

\* a trim that removes every trailing "/" (strings.TrimRight)
TrimSuffix_All(s) ==
    LET keep == { k \in 0..Len(s) : k = 0 \/ s[k] # "/" }
        n == CHOOSE k \in keep : \A j \in keep : j <= k
    IN  SubSeq(s, 1, n)

\* strings.TrimSuffix(s, "/"): removes one trailing "/" when there is one
TrimSuffix(s) ==
    IF Len(s) > 0 /\ s[Len(s)] = "/" THEN SubSeq(s, 1, Len(s) - 1) ELSE s

\* a NewClient without the check for an empty base URL
NewClient_AcceptsEmpty(baseURL) ==
    [c |-> [baseURL   |-> TrimSuffix(baseURL),
            apiURL    |-> TrimSuffix(baseURL) \o APISuffix,
            authToken |-> "",
            contentType |-> "application/json"],
     err |-> NoErr]

\* client.NewClient(Config{BaseURL: baseURL}): [c |-> Client or Nil, err |-> error]
NewClient(baseURL) ==
    IF baseURL = <<>>
    THEN [c |-> Nil, err |-> "baseURL is required"]
    ELSE [c |-> [baseURL   |-> TrimSuffix(baseURL),
                 apiURL    |-> TrimSuffix(baseURL) \o APISuffix,
                 authToken |-> "",
                 contentType |-> "application/json"],
          err |-> NoErr]

\* a SetAuthToken that does not store the token
SetAuthToken_Dropped(cs, c, token) == cs

\* a SetAuthToken that derives the API URL anew
SetAuthToken_RebuildsURL(cs, c, token) ==
    [cs EXCEPT ![c].authToken = token, ![c].apiURL = cs[c].baseURL \o <<"/API">>]

\* (c *Client) SetAuthToken(token), as the new client heap
SetAuthToken(cs, c, token) == [cs EXCEPT ![c].authToken = token]

GetAuthToken(cs, c) == cs[c].authToken
GetBaseURL(cs, c) == cs[c].baseURL
GetAPIURL(cs, c) == cs[c].apiURL

----------------------------------------------------------------------------
(* internal/client: Do, the verb helpers and the error classification *)

Tokens == { "", "tok123", "tok456" }

\* Request.Body values: none, a value json.Marshal accepts, one it rejects
NilBody == "nil"
ReqBodies == { NilBody, "map[key:value]", "chan int" }

Paths == { "/Accounts", "/%zz" }
QueryParamSets == { << >>, [limit |-> "10"] }
HeaderSets == { << >>,
                [Authorization |-> "Basic abc"],
                [authorization |-> "Basic abc"],
                ("Content-Type" :> "text/plain") }
Contexts == { "active", "cancelled" }

Statuses == { 200, 201, 204, 399, 400, 401, 403, 404, 409, 500, 503 }

\* response bodies, by what json.Unmarshal into an *APIError makes of them:
\* err: it returns an error; code, msg: the fields it has set by then
JSONBodies ==
    ( "{\"ErrorCode\":\"PASWS001\",\"ErrorMessage\":\"Not found\"}" :>
          [err |-> FALSE, code |-> "PASWS001", msg |-> "Not found"] )
 @@ ( "{\"ErrorCode\":\"PASWS001\"}" :>
          [err |-> FALSE, code |-> "PASWS001", msg |-> ""] )
 @@ ( "{\"message\": \"success\"}" :>
          [err |-> FALSE, code |-> "", msg |-> ""] )
 @@ ( "null" :>
          [err |-> FALSE, code |-> "", msg |-> ""] )
 @@ ( "{\"ErrorCode\":\"PASWS001\",\"ErrorMessage\":5}" :>
          [err |-> TRUE, code |-> "PASWS001", msg |-> ""] )
 @@ ( "Service Unavailable" :>
          [err |-> TRUE, code |-> "", msg |-> ""] )
 @@ ( "{\"ErrorCode\":\"PASWS001\"" :>
          [err |-> TRUE, code |-> "", msg |-> ""] )

RespBodies == { "" } \cup DOMAIN JSONBodies

\* a transport that may still deliver a response once the context is cancelled
TransportOutcomes_IgnoresContext(ctx) ==
    { [kind |-> "error", cause |-> "context canceled"],
      [kind |-> "response", status |-> 200, body |-> "", readOK |-> TRUE] }

\* what c.httpClient.Do and io.ReadAll can give for a request under ctx: an
\* error and no response, or a response whose body is then read in full or not
TransportOutcomes(ctx) ==
    IF ctx = "cancelled"
    THEN { [kind |-> "error", cause |-> "context canceled"] }
    ELSE { [kind |-> "error", cause |-> e] :
              e \in { "connection refused", "Client.Timeout exceeded" } }
         \cup
         { [kind |-> "response", status |-> st, body |-> b, readOK |-> TRUE] :
              st \in { x \in Statuses : x >= 400 }, b \in RespBodies }
         \cup
         { [kind |-> "response", status |-> st, body |-> b, readOK |-> TRUE] :
              st \in { x \in Statuses : x < 400 }, b \in { "", "{\"message\": \"success\"}" } }
         \cup
         { [kind |-> "response", status |-> st, body |-> "", readOK |-> FALSE] :
              st \in Statuses }

NoError == [kind |-> "nil"]
NoResp == [nil |-> TRUE]
NoReq == [nil |-> TRUE]

\* json.Marshal that never reports failure
Marshal_ErrIgnored(b) == [err |-> FALSE, bytes |-> ""]

\* json.Marshal(req.Body)
Marshal(b) ==
    IF b = "chan int"
    THEN [err |-> TRUE, bytes |-> ""]
    ELSE [err |-> FALSE, bytes |-> "{\"key\":\"value\"}"]

\* url.Values.Encode() of a parameter map with at most one key
Encode(q) ==
    IF DOMAIN q = {} THEN << >>
    ELSE LET k == CHOOSE x \in DOMAIN q : TRUE IN <<k, "=", q[k]>>

\* fullURL := c.apiURL + req.Path (+ "?" + req.QueryParams.Encode())
FullURL(apiURL, req) ==
    apiURL \o <<req.Path>>
           \o (IF DOMAIN req.QueryParams # {} THEN <<"?">> \o Encode(req.QueryParams) ELSE << >>)

\* http.NewRequestWithContext accepts the method and parses the URL
ValidRequest(method, path) == method # "BAD METHOD" /\ path # "/%zz"

\* http.Header.Set stores under the canonical form of the key
CanonicalKey(k) == IF k = "authorization" THEN "Authorization" ELSE k

\* headers where the defaults of Do win over the caller's
RequestHeader_DefaultsWin(cl, req) ==
    LET defaults == ("Content-Type" :> cl.contentType)
                    @@ (IF cl.authToken # "" THEN ("Authorization" :> cl.authToken) ELSE << >>)
        custom == [k \in { CanonicalKey(x) : x \in DOMAIN req.Headers } |->
                     req.Headers[CHOOSE x \in DOMAIN req.Headers : CanonicalKey(x) = k]]
    IN  defaults @@ custom

\* the default headers of Do, then the custom headers set over them
RequestHeader(cl, req) ==
    LET defaults == ("Content-Type" :> cl.contentType)
                    @@ (IF cl.authToken # "" THEN ("Authorization" :> cl.authToken) ELSE << >>)
        custom == [k \in { CanonicalKey(x) : x \in DOMAIN req.Headers } |->
                     req.Headers[CHOOSE x \in DOMAIN req.Headers : CanonicalKey(x) = k]]
    IN  custom @@ defaults

\* a table of defaults that knows the generic message only
DefaultMessage_Generic(status) == <<"HTTP Error ", status>>

\* the default message of parseAPIError for a status
DefaultMessage(status) ==
    CASE status = 400 -> <<"Bad Request">>
      [] status = 401 -> <<"Unauthorized">>
      [] status = 403 -> <<"Forbidden">>
      [] status = 404 -> <<"Not Found">>
      [] status = 409 -> <<"Conflict">>
      [] status = 500 -> <<"Internal Server Error">>
      [] OTHER        -> <<"HTTP Error ", status>>

\* a parseAPIError that drops a body json.Unmarshal rejects
parseAPIError_DropsRawBody(resp) ==
    LET u == IF resp.Body # ""
             THEN JSONBodies[resp.Body]
             ELSE [err |-> FALSE, code |-> "", msg |-> ""]
    IN  [kind       |-> "APIError",
         StatusCode |-> resp.StatusCode,
         ErrorCode  |-> u.code,
         ErrorMsg   |-> IF u.msg = "" THEN DefaultMessage(resp.StatusCode) ELSE <<u.msg>>]

\* parseAPIError(resp); messages are kept as sequences of chunks
parseAPIError(resp) ==
    LET u == IF resp.Body # ""
             THEN JSONBodies[resp.Body]
             ELSE [err |-> FALSE, code |-> "", msg |-> ""]
        msg == IF u.err THEN resp.Body ELSE u.msg
    IN  [kind       |-> "APIError",
         StatusCode |-> resp.StatusCode,
         ErrorCode  |-> u.code,
         ErrorMsg   |-> IF msg = "" THEN DefaultMessage(resp.StatusCode) ELSE <<msg>>]

\* an error check that lets status 400 through
IsErrorStatus_Above400(status) == status > 400

\* an error check that treats everything past the 2xx range as an error
IsErrorStatus_Non2xx(status) == status >= 300

\* Do's check for error responses
IsErrorStatus(status) == status >= 400

\* what Do returns, and what it hands to the HTTP client, for Client struct
\* cl, request req, context ctx and transport outcome out
DoResult(cl, req, ctx, out) ==
    LET m == IF req.Body # NilBody THEN Marshal(req.Body) ELSE [err |-> FALSE, bytes |-> ""]
        httpReq == [Method |-> req.Method,
                    URL    |-> FullURL(cl.apiURL, req),
                    Header |-> RequestHeader(cl, req),
                    Body   |-> m.bytes,
                    ctx    |-> ctx]
        resp == [StatusCode |-> out.status, Body |-> out.body]
    IN  IF m.err
        THEN [sent |-> 0, httpReq |-> NoReq, out |-> NoResp, resp |-> NoResp,
              err |-> [kind |-> "failed to marshal request body"]]
        ELSE IF ~ValidRequest(req.Method, req.Path)
        THEN [sent |-> 0, httpReq |-> NoReq, out |-> NoResp, resp |-> NoResp,
              err |-> [kind |-> "failed to create request"]]
        ELSE IF out.kind = "error"
        THEN [sent |-> 1, httpReq |-> httpReq, out |-> out, resp |-> NoResp,
              err |-> [kind |-> "failed to execute request", cause |-> out.cause]]
        ELSE IF ~out.readOK
        THEN [sent |-> 1, httpReq |-> httpReq, out |-> out, resp |-> NoResp,
              err |-> [kind |-> "failed to read response body"]]
        ELSE IF IsErrorStatus(out.status)
        THEN [sent |-> 1, httpReq |-> httpReq, out |-> out, resp |-> resp,
              err |-> parseAPIError(resp)]
        ELSE [sent |-> 1, httpReq |-> httpReq, out |-> out, resp |-> resp,
              err |-> NoError]

\* Do returns before it reaches c.httpClient.Do
ReturnsEarly(req) ==
    \/ req.Body # NilBody /\ Marshal(req.Body).err
    \/ ~ValidRequest(req.Method, req.Path)

Idle == inflight = NoReq

\* (c *Client) Do(ctx, req) up to c.httpClient.Do(httpReq): it returns at once
\* when the body or the request is rejected, and else blocks in the transport
Do(c, req, ctx) ==
    /\ c \in DOMAIN clients
    /\ Idle
    /\ IF ReturnsEarly(req)
       THEN /\ last' = [op |-> "Do", c |-> c, req |-> req, ctx |-> ctx]
                       @@ DoResult(clients[c], req, ctx, NoResp)
            /\ UNCHANGED inflight
       ELSE /\ inflight' = [c |-> c, cl |-> clients[c], req |-> req, ctx |-> ctx]
            /\ last' = [op |-> "Do (in flight)", c |-> c]
    /\ UNCHANGED <<clients, sessions, now, newErr, calls, hist>>

\* the caller's context is cancelled while the call is in the transport
CancelContext ==
    /\ ~Idle
    /\ inflight.ctx = "active"
    /\ inflight' = [inflight EXCEPT !.ctx = "cancelled"]
    /\ UNCHANGED <<clients, sessions, now, newErr, last, calls, hist>>

\* a Do that hands the request to the transport again after a transport error
DoReturn_Retries(out) ==
    /\ ~Idle
    /\ out \in TransportOutcomes(inflight.ctx)
    /\ IF out.kind = "error"
       THEN /\ inflight' = inflight
            /\ last' = [op |-> "Do (in flight)", c |-> inflight.c, attempt |-> 2]
       ELSE /\ inflight' = NoReq
            /\ last' = [op |-> "Do", c |-> inflight.c, req |-> inflight.req,
                        ctx |-> inflight.ctx]
                       @@ DoResult(inflight.cl, inflight.req, inflight.ctx, out)
    /\ UNCHANGED <<clients, sessions, now, newErr, calls, hist>>

\* (c *Client) Do from the return of c.httpClient.Do to its own return, the
\* transport answering with out
DoReturn(out) ==
    /\ ~Idle
    /\ out \in TransportOutcomes(inflight.ctx)
    /\ last' = [op |-> "Do", c |-> inflight.c, req |-> inflight.req, ctx |-> inflight.ctx]
               @@ DoResult(inflight.cl, inflight.req, inflight.ctx, out)
    /\ inflight' = NoReq
    /\ UNCHANGED <<clients, sessions, now, newErr, calls, hist>>

AllOutcomes == UNION { TransportOutcomes(ctx) : ctx \in Contexts }

\* (c *Client) Get(ctx, path, queryParams)
Get(c, path, q, ctx) ==
    Do(c, [Method |-> "GET", Path |-> path, Body |-> NilBody,
           QueryParams |-> q, Headers |-> << >>], ctx)

\* (c *Client) Post(ctx, path, body)
Post(c, path, body, ctx) ==
    Do(c, [Method |-> "POST", Path |-> path, Body |-> body,
           QueryParams |-> << >>, Headers |-> << >>], ctx)

\* (c *Client) Put(ctx, path, body)
Put(c, path, body, ctx) ==
    Do(c, [Method |-> "PUT", Path |-> path, Body |-> body,
           QueryParams |-> << >>, Headers |-> << >>], ctx)

\* (c *Client) Patch(ctx, path, body)
Patch(c, path, body, ctx) ==
    Do(c, [Method |-> "PATCH", Path |-> path, Body |-> body,
           QueryParams |-> << >>, Headers |-> << >>], ctx)

\* (c *Client) Delete(ctx, path)
Delete(c, path, ctx) ==
    Do(c, [Method |-> "DELETE", Path |-> path, Body |-> NilBody,
           QueryParams |-> << >>, Headers |-> << >>], ctx)

\* a direct call of (c *Client) SetAuthToken(token)
SetAuthTokenCall(c, token) ==
    /\ c \in DOMAIN clients
    /\ clients' = SetAuthToken(clients, c, token)
    /\ Idle
    /\ last' = [op |-> "SetAuthToken", c |-> c, arg |-> token]
    /\ UNCHANGED <<sessions, now, newErr, inflight, calls, hist>>

----------------------------------------------------------------------------
(* internal/session *)

\* session.NewSession(baseURI): the Session struct literal of the constructor
NewSessionStruct(baseURI, c, apiURL, t) ==
    [Client          |-> c,
     BaseURI         |-> baseURI,
     APIURI          |-> apiURL,
     User            |-> "",
     ExternalVersion |-> "",
     StartTime       |-> t,
     LastCommand     |-> "",
     LastCommandTime |-> ZeroTime,
     LastError       |-> NoErr,
     LastErrorTime   |-> ZeroTime,
     IsAuthenticated |-> FALSE,
     AuthMethod      |-> "",
     SessionToken    |-> "",
     PrivilegeCloud  |-> FALSE]

\* the state right after session.NewSession(baseURI) returned
NewSession(baseURI) ==
    LET r == NewClient(baseURI) IN
    /\ now = 1
    /\ inflight = NoReq
    /\ newErr = r.err
    /\ last = [op |-> "NewSession", s |-> "s1", arg |-> baseURI, ret |-> r.err]
    /\ IF r.err # NoErr
       THEN /\ clients = << >>
            /\ sessions = << >>
            /\ hist = << >>
       ELSE /\ clients = [c \in {"c1"} |-> r.c]
            /\ sessions = [i \in {"s1"} |->
                             NewSessionStruct(baseURI, "c1", GetAPIURL(clients, "c1"), now)]
            /\ hist = [i \in {"s1"} |-> [st |-> "new", tok |-> ""]]

Live(i) == i \in DOMAIN sessions

\* SetAuthenticated without the assignment of IsAuthenticated
SetAuthenticatedS_NoFlag(s, a) ==
    [s EXCEPT !.User = a[1], !.SessionToken = a[2], !.AuthMethod = a[3]]

\* the body of SetAuthenticated on the Session struct
SetAuthenticatedS(s, a) ==
    [s EXCEPT !.User = a[1], !.SessionToken = a[2], !.AuthMethod = a[3],
              !.IsAuthenticated = TRUE]

\* (s *Session) SetAuthenticated(user, token, authMethod)
SetAuthenticated(i, a) ==
    /\ Live(i)
    /\ sessions' = [sessions EXCEPT ![i] = SetAuthenticatedS(@, a)]
    /\ clients' = SetAuthToken(clients, sessions[i].Client, a[2])
    /\ last' = [op |-> "SetAuthenticated", s |-> i, arg |-> a, ret |-> Nil,
                from |-> hist[i].st]
    /\ hist' = [hist EXCEPT ![i] = [st |-> "auth", tok |-> a[2]]]
    /\ UNCHANGED <<now, newErr, inflight>>

SetVersionS(s, v) == [s EXCEPT !.ExternalVersion = v]

\* (s *Session) SetVersion(version)
SetVersion(i, v) ==
    /\ Live(i)
    /\ sessions' = [sessions EXCEPT ![i] = SetVersionS(@, v)]
    /\ last' = [op |-> "SetVersion", s |-> i, arg |-> v, ret |-> Nil]
    /\ UNCHANGED <<clients, now, newErr, inflight, hist>>

SetPrivilegeCloudS(s, b) == [s EXCEPT !.PrivilegeCloud = b]

\* (s *Session) SetPrivilegeCloud(isCloud)
SetPrivilegeCloud(i, b) ==
    /\ Live(i)
    /\ sessions' = [sessions EXCEPT ![i] = SetPrivilegeCloudS(@, b)]
    /\ last' = [op |-> "SetPrivilegeCloud", s |-> i, arg |-> b, ret |-> Nil]
    /\ UNCHANGED <<clients, now, newErr, inflight, hist>>

\* the body of UpdateLastCommand, t being the value of time.Now()
UpdateLastCommandS(s, cmd, t) == [s EXCEPT !.LastCommand = cmd, !.LastCommandTime = t]

\* (s *Session) UpdateLastCommand(cmd); time.Now() reads a clock that does
\* not run backwards
UpdateLastCommand(i, cmd) ==
    /\ Live(i)
    /\ \E t \in now..MaxTime :
         /\ now' = t
         /\ sessions' = [sessions EXCEPT ![i] = UpdateLastCommandS(@, cmd, t)]
    /\ last' = [op |-> "UpdateLastCommand", s |-> i, arg |-> cmd, ret |-> Nil]
    /\ UNCHANGED <<clients, newErr, inflight, hist>>

\* the body of UpdateLastError, t being the value of time.Now()
UpdateLastErrorS(s, e, t) == [s EXCEPT !.LastError = e, !.LastErrorTime = t]

\* (s *Session) UpdateLastError(err)
UpdateLastError(i, e) ==
    /\ Live(i)
    /\ \E t \in now..MaxTime :
         /\ now' = t
         /\ sessions' = [sessions EXCEPT ![i] = UpdateLastErrorS(@, e, t)]
    /\ last' = [op |-> "UpdateLastError", s |-> i, arg |-> e, ret |-> Nil]
    /\ UNCHANGED <<clients, newErr, inflight, hist>>

\* (s *Session) GetElapsedTime() = time.Since(s.StartTime)
GetElapsedTime(i) ==
    /\ Live(i)
    /\ \E t \in now..MaxTime :
         /\ now' = t
         /\ last' = [op |-> "GetElapsedTime", s |-> i, arg |-> Nil,
                     ret |-> t - sessions[i].StartTime]
    /\ UNCHANGED <<clients, sessions, newErr, inflight, hist>>

\* a Close that leaves the flag and the token as they are
CloseS_KeepsAll(s) == s

\* a Close that resets the user as well
CloseS_ClearsUser(s) ==
    [s EXCEPT !.IsAuthenticated = FALSE, !.SessionToken = "", !.User = ""]

\* the body of Close on the Session struct
CloseS(s) == [s EXCEPT !.IsAuthenticated = FALSE, !.SessionToken = ""]

\* (s *Session) Close()
Close(i) ==
    /\ Live(i)
    /\ sessions' = [sessions EXCEPT ![i] = CloseS(@)]
    /\ last' = [op |-> "Close", s |-> i, arg |-> Nil, ret |-> Nil]
    /\ hist' = [hist EXCEPT ![i] = [st |-> "closed", tok |-> ""]]
    /\ UNCHANGED <<clients, now, newErr, inflight>>

\* a Clone that copies the whole struct, LastCommand included
CloneStruct_KeepsLastCommand(s) == s

\* a Clone that resets LastCommand and LastCommandTime only
CloneStruct_CopiesLastError(s) ==
    [s EXCEPT !.LastCommand = "", !.LastCommandTime = ZeroTime]

\* the struct literal returned by (s *Session) Clone(); the fields it does
\* not name take Go's zero value
CloneStruct(s) ==
    [Client          |-> s.Client,
     BaseURI         |-> s.BaseURI,
     APIURI          |-> s.APIURI,
     User            |-> s.User,
     ExternalVersion |-> s.ExternalVersion,
     StartTime       |-> s.StartTime,
     LastCommand     |-> "",
     LastCommandTime |-> ZeroTime,
     LastError       |-> NoErr,
     LastErrorTime   |-> ZeroTime,
     IsAuthenticated |-> s.IsAuthenticated,
     AuthMethod      |-> s.AuthMethod,
     SessionToken    |-> s.SessionToken,
     PrivilegeCloud  |-> s.PrivilegeCloud]

\* (s *Session) Clone(): the new Session is allocated at handle j (whatever
\* j referred to before is dropped); the clone carries the flag and token of
\* the original, and so its authentication history
Clone(i, j) ==
    /\ Live(i)
    /\ j # i
    /\ sessions' = (j :> CloneStruct(sessions[i])) @@ sessions
    /\ last' = [op |-> "Clone", s |-> i, arg |-> Nil, ret |-> j]
    /\ hist' = (j :> hist[i]) @@ hist
    /\ UNCHANGED <<clients, now, newErr, inflight>>

\* an IsValid that looks at the flag only
IsValidOf_FlagOnly(s) == s.IsAuthenticated

\* the value returned by (s *Session) IsValid()
IsValidOf(s) == s.IsAuthenticated /\ s.SessionToken # ""

\* (s *Session) IsValid()
IsValid(i) ==
    /\ Live(i)
    /\ last' = [op |-> "IsValid", s |-> i, arg |-> Nil, ret |-> IsValidOf(sessions[i])]
    /\ UNCHANGED <<clients, sessions, now, newErr, inflight, hist>>

----------------------------------------------------------------------------
(* Sequential specification: one caller, at most MaxCalls calls *)

\* Session.mu unlocked: w is the goroutine that has taken the writer side
\* (rw.w, which turns new readers away), in tells that it is past Lock(),
\* r are the goroutines past RLock()
Unlocked == [w |-> {}, in |-> FALSE, r |-> {}]

InitConcIdle ==
    /\ mu = Unlocked
    /\ procs = << >>
    /\ shadow = << >>

Init ==
    /\ \E b \in BaseURIs : NewSession(b)
    /\ calls = 0
    /\ InitConcIdle

\* one more call of the single caller
Called ==
    /\ calls < MaxCalls
    /\ calls' = calls + 1
    /\ UNCHANGED concVars

Next ==
    \/ \E i \in SessionIds, a \in AuthArgs : SetAuthenticated(i, a) /\ Called
    \/ \E i \in SessionIds, v \in Versions : SetVersion(i, v) /\ Called
    \/ \E i \in SessionIds, b \in BOOLEAN : SetPrivilegeCloud(i, b) /\ Called
    \/ \E i \in SessionIds, cmd \in Commands : UpdateLastCommand(i, cmd) /\ Called
    \/ \E i \in SessionIds, e \in Errs : UpdateLastError(i, e) /\ Called
    \/ \E i \in SessionIds : GetElapsedTime(i) /\ Called
    \/ \E i \in SessionIds : Close(i) /\ Called
    \/ \E i, j \in SessionIds : Clone(i, j) /\ Called
    \/ \E i \in SessionIds : IsValid(i) /\ Called

Spec == Init /\ [][Next]_vars

----------------------------------------------------------------------------
(* Properties of the Session, checked under Spec *)

\* the most recent call was op, and it has returned
Returned(op) == calls > 0 /\ last.op = op

\* this step is a call of op
CallOf(op) == calls' = calls + 1 /\ last'.op = op

\* C1: whatever calls came before, IsValid() returns true exactly when the
\* IsAuthenticated flag is set and SessionToken is not empty.
C1_IsValidIffFlagAndToken ==
    Returned("IsValid") =>
        (last.ret <=> (sessions[last.s].IsAuthenticated = TRUE
                       /\ sessions[last.s].SessionToken # ""))

\* IsValid() was called on a session whose flag is set but whose token is empty
C1_Witness ==
    /\ Returned("IsValid")
    /\ sessions[last.s].IsAuthenticated
    /\ sessions[last.s].SessionToken = ""
    /\ last.ret = FALSE

\* C2 as stated: IsValid() is true exactly when SetAuthenticated was called
\* since construction or since the most recent Close, whatever its arguments.
C2_Original ==
    \A i \in DOMAIN sessions : IsValidOf(sessions[i]) <=> (hist[i].st = "auth")

\* C2 (amended): IsValid() is true exactly when the most recent of
\* construction, Close and SetAuthenticated was a SetAuthenticated whose token
\* argument was not empty; it is false after construction and after every Close.
C2_IsValidIffAuthWithToken ==
    \A i \in DOMAIN sessions :
        IsValidOf(sessions[i]) <=> (hist[i].st = "auth" /\ hist[i].tok # "")

\* a session that was authenticated, closed, and authenticated again is valid
C2_Witness ==
    /\ Returned("SetAuthenticated")
    /\ last.from = "closed"
    /\ IsValidOf(sessions[last.s])

\* C3: SetAuthenticated(user, token, authMethod), from any prior state, leaves
\* User, SessionToken, AuthMethod equal to its arguments, IsAuthenticated true,
\* and the token of the session's Client equal to the token argument.
C3_SetAuthenticatedPost ==
    Returned("SetAuthenticated") =>
        LET s == sessions[last.s] IN
        /\ s.User = last.arg[1]
        /\ s.SessionToken = last.arg[2]
        /\ s.AuthMethod = last.arg[3]
        /\ s.IsAuthenticated = TRUE
        /\ GetAuthToken(clients, s.Client) = last.arg[2]

\* SetAuthenticated was called on a closed session with other arguments than
\* those of the earlier authentication
C3_Witness ==
    /\ Returned("SetAuthenticated")
    /\ last.from = "closed"
    /\ last.arg = <<"bob", "tok456", "LDAP">>
    /\ sessions[last.s].User = "bob"

KeptByClose ==
    { "Client", "BaseURI", "APIURI", "User", "ExternalVersion", "StartTime",
      "LastCommand", "LastCommandTime", "LastError", "LastErrorTime",
      "AuthMethod", "PrivilegeCloud" }

\* C4: a Close() step sets IsAuthenticated to false and SessionToken to "" and
\* keeps every other field of the session, the Client reference included.
C4_CloseFrame ==
    [][CallOf("Close") =>
         LET i == last'.s IN
         /\ sessions'[i].IsAuthenticated = FALSE
         /\ sessions'[i].SessionToken = ""
         /\ \A f \in KeptByClose : sessions'[i][f] = sessions[i][f]]_vars

\* Close() was called on an authenticated session that has a user, a last
\* command and a last error
C4_Witness ==
    /\ Returned("Close")
    /\ hist[last.s].st = "closed"
    /\ sessions[last.s].User = "alice"
    /\ sessions[last.s].AuthMethod = "CyberArk"
    /\ sessions[last.s].LastCommand # ""
    /\ sessions[last.s].LastError # NoErr

CopiedByClone ==
    { "User", "SessionToken", "AuthMethod", "IsAuthenticated", "ExternalVersion",
      "PrivilegeCloud", "BaseURI", "APIURI" }

\* C5: a Clone() step returns a new Session with the original's User,
\* SessionToken, AuthMethod, IsAuthenticated, ExternalVersion, PrivilegeCloud,
\* BaseURI and APIURI, the same Client, and an empty LastCommand; the original
\* is not modified.
C5_CloneCopies ==
    [][CallOf("Clone") =>
         LET i == last'.s
             j == last'.ret IN
         /\ j # i
         /\ \A f \in CopiedByClone : sessions'[j][f] = sessions[i][f]
         /\ sessions'[j].Client = sessions[i].Client
         /\ sessions'[j].LastCommand = ""
         /\ sessions'[i] = sessions[i]
         /\ clients' = clients]_vars

\* an authenticated session with a last command was cloned
C5_Witness ==
    /\ Returned("Clone")
    /\ sessions[last.s].LastCommand # ""
    /\ sessions[last.s].IsAuthenticated
    /\ sessions[last.s].SessionToken = "tok123"
    /\ sessions[last.s].PrivilegeCloud
    /\ sessions[last.ret].SessionToken = "tok123"

\* C6 as stated: the clone has the original's LastError and LastErrorTime
\* (only LastCommand and LastCommandTime are reset).
C6_Original ==
    Returned("Clone") =>
        /\ sessions[last.ret].LastError = sessions[last.s].LastError
        /\ sessions[last.ret].LastErrorTime = sessions[last.s].LastErrorTime

ResetByClone == { "LastCommand", "LastCommandTime", "LastError", "LastErrorTime" }

\* C6 (amended): Clone() resets LastCommand, LastCommandTime, LastError and
\* LastErrorTime to their zero values; every other field of the clone is
\* copied by value from the original.
C6_CloneResetsLastFields ==
    Returned("Clone") =>
        LET o == sessions[last.s]
            c == sessions[last.ret] IN
        /\ c.LastCommand = "" /\ c.LastCommandTime = ZeroTime
        /\ c.LastError = NoErr /\ c.LastErrorTime = ZeroTime
        /\ \A f \in DOMAIN o \ ResetByClone : c[f] = o[f]

\* a session was cloned after UpdateLastError and UpdateLastCommand
C6_Witness ==
    /\ Returned("Clone")
    /\ sessions[last.s].LastError = "testError"
    /\ sessions[last.s].LastErrorTime # ZeroTime
    /\ sessions[last.s].LastCommand # ""
    /\ sessions[last.ret].LastError = NoErr

----------------------------------------------------------------------------
(* The client alone: any request against any answer of the transport *)

\* the requests handed to Do directly: the methods the helpers do not cover,
\* with every path and body, and each parameter and header set on a GET
Requests ==
    [Method : { "GET", "POST", "BAD METHOD" }, Path : Paths, Body : ReqBodies,
     QueryParams : { << >> }, Headers : { << >> }]
    \cup
    [Method : { "GET" }, Path : { "/Accounts" }, Body : { NilBody },
     QueryParams : QueryParamSets, Headers : HeaderSets]

NextDo ==
    \/ \E c \in ClientIds, t \in Tokens : SetAuthTokenCall(c, t) /\ UNCHANGED concVars
    \/ \E c \in ClientIds, req \in Requests, ctx \in Contexts :
          Do(c, req, ctx) /\ UNCHANGED concVars
    \/ \E c \in ClientIds, p \in Paths, q \in QueryParamSets, ctx \in Contexts :
          Get(c, p, q, ctx) /\ UNCHANGED concVars
    \/ \E c \in ClientIds, p \in Paths, b \in ReqBodies, ctx \in Contexts :
          Post(c, p, b, ctx) /\ UNCHANGED concVars
    \/ \E c \in ClientIds, p \in Paths, b \in ReqBodies, ctx \in Contexts :
          Put(c, p, b, ctx) /\ UNCHANGED concVars
    \/ \E c \in ClientIds, p \in Paths, b \in ReqBodies, ctx \in Contexts :
          Patch(c, p, b, ctx) /\ UNCHANGED concVars
    \/ \E c \in ClientIds, p \in Paths, ctx \in Contexts :
          Delete(c, p, ctx) /\ UNCHANGED concVars
    \/ CancelContext /\ UNCHANGED concVars
    \/ \E out \in AllOutcomes : DoReturn(out) /\ UNCHANGED concVars

SpecDo == Init /\ [][NextDo]_vars

\* the last call was a Do to which the transport delivered a response, status
\* and body in full
Delivered ==
    /\ last.op = "Do"
    /\ last.sent = 1
    /\ last.out.kind = "response"
    /\ last.out.readOK

\* C8: when the transport delivers a response with status >= 400, Do returns
\* an *APIError with that status together with a Response that has the
\* server's status and raw body.
C8_ErrorKeepsResponse ==
    (Delivered /\ last.out.status >= 400) =>
        /\ last.err.kind = "APIError"
        /\ last.err.StatusCode = last.out.status
        /\ last.resp # NoResp
        /\ last.resp.StatusCode = last.out.status
        /\ last.resp.Body = last.out.body

\* the transport answered 400 with a JSON error body
C8_Witness ==
    /\ Delivered
    /\ last.out.status = 400
    /\ last.out.body = "{\"ErrorCode\":\"PASWS001\",\"ErrorMessage\":\"Not found\"}"
    /\ last.err.kind = "APIError"
    /\ last.resp.StatusCode = 400

\* C9: when the transport delivers a response with status < 400 and body B, Do
\* returns a nil error and a Response with that status and body B; for a
\* delivered response the error is non-nil exactly when the status is >= 400.
C9_SuccessBelow400 ==
    Delivered =>
        /\ (last.err # NoError) <=> (last.out.status >= 400)
        /\ last.out.status < 400 =>
              /\ last.err = NoError
              /\ last.resp # NoResp
              /\ last.resp.StatusCode = last.out.status
              /\ last.resp.Body = last.out.body

\* the transport answered 399 (not a 2xx status) with a body
C9_Witness ==
    /\ Delivered
    /\ last.out.status = 399
    /\ last.out.body = "{\"message\": \"success\"}"
    /\ last.err = NoError
    /\ last.resp.Body = "{\"message\": \"success\"}"

\* C10: when the request body cannot be serialized, Do and the helpers that
\* take a body return an error and no Response, and hand no request to the
\* transport.
C10_MarshalFailureSendsNothing ==
    (last.op = "Do" /\ last.req.Body = "chan int") =>
        /\ last.err # NoError
        /\ last.resp = NoResp
        /\ last.sent = 0
        /\ last.httpReq = NoReq

\* Post was called with a body json.Marshal rejects, on a client with a token
C10_Witness ==
    /\ last.op = "Do"
    /\ last.req.Method = "POST"
    /\ last.req.Body = "chan int"
    /\ last.req.Path = "/Accounts"
    /\ last.ctx = "active"
    /\ clients[last.c].authToken # ""
    /\ last.err.kind = "failed to marshal request body"

\* the call recorded in l did not end in a response with a status below 400
Failed(l) ==
    \/ l.sent = 0
    \/ l.out.kind = "error"
    \/ ~l.out.readOK
    \/ l.out.status >= 400

\* C11: a call of Do (or of a verb helper) hands at most one request to the
\* transport: once the request is in the transport the call does nothing but
\* return, with the request it was given, and a failure of any kind (rejected
\* body or request, transport error, cancellation, unreadable body, status
\* >= 400) comes back to the caller as a non-nil error; nothing is retried.
C11_OneRequestNoRetry ==
    [][/\ (~Idle /\ last' # last) =>
              /\ inflight' = NoReq
              /\ last'.op = "Do"
              /\ last'.sent = 1
              /\ last'.c = inflight.c
              /\ last'.req = inflight.req
       /\ last'.op = "Do" =>
              /\ last'.sent \in { 0, 1 }
              /\ (last'.sent = 0) <=> (last'.httpReq = NoReq)
              /\ Failed(last') => last'.err # NoError]_vars

\* the transport gave up on a request, and Do returned that error
C11_Witness ==
    /\ Idle
    /\ last.op = "Do"
    /\ last.sent = 1
    /\ last.out.kind = "error"
    /\ last.out.cause = "Client.Timeout exceeded"
    /\ last.err.kind = "failed to execute request"
    /\ last.err.cause = "Client.Timeout exceeded"

\* C12: a Do whose context is cancelled before the transport completes
\* returns a non-nil error and no Response; the cancellation itself changes
\* neither a result already returned nor the client nor the request in flight.
C12_CancelledReturnsError ==
    [][/\ (last'.op = "Do" /\ last'.ctx = "cancelled") =>
              /\ last'.err # NoError
              /\ last'.resp = NoResp
       /\ (~Idle /\ ~Idle' /\ inflight'.ctx # inflight.ctx) =>
              /\ last' = last
              /\ clients' = clients
              /\ inflight'.req = inflight.req
              /\ inflight'.cl = inflight.cl]_vars

\* a GET that went to the transport came back under a cancelled context
C12_Witness ==
    /\ Idle
    /\ last.op = "Do"
    /\ last.req.Method = "GET"
    /\ last.ctx = "cancelled"
    /\ last.sent = 1
    /\ last.out.cause = "context canceled"
    /\ last.err.kind = "failed to execute request"
    /\ last.resp = NoResp

\* the keys of the caller's headers that name the header k
Supplied(req, k) == { x \in DOMAIN req.Headers : CanonicalKey(x) = k }

\* C13: the Authorization header of a request built by Do is the value the
\* caller supplied in Request.Headers when there is one; otherwise the
\* Client's token, verbatim, when that is not empty; otherwise the header is
\* absent. Content-Type is the caller's value when supplied and the Client's
\* default otherwise.
C13_AuthorizationHeader ==
    (last.op = "Do" /\ last.sent = 1) =>
        LET h == last.httpReq.Header
            req == last.req
            token == GetAuthToken(clients, last.c)
        IN  /\ IF Supplied(req, "Authorization") # {}
               THEN /\ "Authorization" \in DOMAIN h
                    /\ h["Authorization"] \in
                          { req.Headers[x] : x \in Supplied(req, "Authorization") }
               ELSE IF token # ""
               THEN "Authorization" \in DOMAIN h /\ h["Authorization"] = token
               ELSE "Authorization" \notin DOMAIN h
            /\ "Content-Type" \in DOMAIN h
            /\ IF Supplied(req, "Content-Type") # {}
               THEN h["Content-Type"] = req.Headers["Content-Type"]
               ELSE h["Content-Type"] = "application/json"

\* a client with a token sent a request whose headers carry an Authorization
C13_Witness ==
    /\ last.op = "Do"
    /\ last.sent = 1
    /\ GetAuthToken(clients, last.c) = "tok123"
    /\ DOMAIN last.req.Headers = { "authorization" }
    /\ last.httpReq.Header["Authorization"] = "Basic abc"

\* the response bodies as JSON texts: whether the text is valid JSON, whether
\* it is an object, the texts of its ErrorCode and ErrorMessage members ("" when
\* absent), and whether the members present are JSON strings
BodyFacts ==
    ( "" :>
          [json |-> FALSE, object |-> FALSE, code |-> "", msg |-> "", strings |-> TRUE] )
 @@ ( "{\"ErrorCode\":\"PASWS001\",\"ErrorMessage\":\"Not found\"}" :>
          [json |-> TRUE, object |-> TRUE, code |-> "PASWS001", msg |-> "Not found",
           strings |-> TRUE] )
 @@ ( "{\"ErrorCode\":\"PASWS001\"}" :>
          [json |-> TRUE, object |-> TRUE, code |-> "PASWS001", msg |-> "", strings |-> TRUE] )
 @@ ( "{\"message\": \"success\"}" :>
          [json |-> TRUE, object |-> TRUE, code |-> "", msg |-> "", strings |-> TRUE] )
 @@ ( "null" :>
          [json |-> TRUE, object |-> FALSE, code |-> "", msg |-> "", strings |-> TRUE] )
 @@ ( "{\"ErrorCode\":\"PASWS001\",\"ErrorMessage\":5}" :>
          [json |-> TRUE, object |-> TRUE, code |-> "PASWS001", msg |-> "5",
           strings |-> FALSE] )
 @@ ( "Service Unavailable" :>
          [json |-> FALSE, object |-> FALSE, code |-> "", msg |-> "", strings |-> TRUE] )
 @@ ( "{\"ErrorCode\":\"PASWS001\"" :>
          [json |-> FALSE, object |-> FALSE, code |-> "", msg |-> "", strings |-> TRUE] )

\* the table of default messages as the specification lists it
ListedDefault(status) ==
    IF status = 400 THEN <<"Bad Request">>
    ELSE IF status = 401 THEN <<"Unauthorized">>
    ELSE IF status = 403 THEN <<"Forbidden">>
    ELSE IF status = 404 THEN <<"Not Found">>
    ELSE IF status = 409 THEN <<"Conflict">>
    ELSE IF status = 500 THEN <<"Internal Server Error">>
    ELSE <<"HTTP Error ", status>>

\* the last call was a Do that got an error response (status >= 400) in full
ErrorDelivered == Delivered /\ last.out.status >= 400

\* C14 as stated: for an error response whose body is empty or not valid JSON
\* the message of the API error is the default message for the status.
C14_Original ==
    (ErrorDelivered /\ ~BodyFacts[last.out.body].json) =>
        last.err.ErrorMsg = ListedDefault(last.out.status)

\* C14 (amended): for an error response with an empty body the message of the
\* API error is the default for the status (400 Bad Request, 401 Unauthorized,
\* 403 Forbidden, 404 Not Found, 409 Conflict, 500 Internal Server Error, any
\* other N "HTTP Error N"); for a non-empty body that is not valid JSON the
\* message is the raw body text.
C14_DefaultForEmptyBody ==
    ErrorDelivered =>
        /\ last.out.body = "" => last.err.ErrorMsg = ListedDefault(last.out.status)
        /\ (last.out.body # "" /\ ~BodyFacts[last.out.body].json) =>
              last.err.ErrorMsg = <<last.out.body>>

\* the server answered 409 with no body
C14_Witness ==
    /\ ErrorDelivered
    /\ last.out.status = 409
    /\ last.out.body = ""
    /\ last.err.ErrorMsg = <<"Conflict">>

\* the message for a body whose ErrorMessage text is m, under status
MsgOrDefault(m, status) == IF m = "" THEN ListedDefault(status) ELSE <<m>>

----------------------------------------------------------------------------
(* Construction: NewClient and session.NewSession over base URLs of every shape *)

MaxLen == 5

\* base URLs, character by character: "h" stands for any character but "/"
URLChars == { "h", "/" }
URLInputs == UNION { [1..n -> URLChars] : n \in 0..MaxLen }

\* the program before anything is constructed
Start ==
    /\ clients = << >>
    /\ sessions = << >>
    /\ hist = << >>
    /\ now = 1
    /\ newErr = NoErr
    /\ inflight = NoReq
    /\ last = [op |-> "start"]
    /\ calls = 0
    /\ InitConcIdle

\* nothing has been constructed so far
Unbuilt == clients = << >> /\ sessions = << >>

\* a call of client.NewClient(Config{BaseURL: baseURL})
NewClientCall(baseURL) ==
    LET r == NewClient(baseURL) IN
    /\ Unbuilt
    /\ newErr' = r.err
    /\ clients' = IF r.err # NoErr THEN << >> ELSE [c \in {"c1"} |-> r.c]
    /\ last' = [op |-> "NewClient", c |-> "c1", arg |-> baseURL, ret |-> r.err]
    /\ UNCHANGED <<sessions, now, inflight, calls, hist>>

\* a call of session.NewSession(baseURI)
NewSessionCall(baseURI) ==
    LET r == NewClient(baseURI) IN
    /\ Unbuilt
    /\ newErr' = r.err
    /\ last' = [op |-> "NewSession", s |-> "s1", arg |-> baseURI, ret |-> r.err]
    /\ IF r.err # NoErr
       THEN UNCHANGED <<clients, sessions, hist>>
       ELSE /\ clients' = [c \in {"c1"} |-> r.c]
            /\ sessions' = [i \in {"s1"} |->
                              NewSessionStruct(baseURI, "c1", GetAPIURL(clients', "c1"), now)]
            /\ hist' = [i \in {"s1"} |-> [st |-> "new", tok |-> ""]]
    /\ UNCHANGED <<now, inflight, calls>>

NextNew ==
    \/ \E b \in URLInputs : NewClientCall(b) /\ UNCHANGED concVars
    \/ \E b \in URLInputs : NewSessionCall(b) /\ UNCHANGED concVars

SpecNew == Start /\ [][NextNew]_vars

\* a constructor was called with base URL b and has returned
Constructed(b) == last.op \in { "NewClient", "NewSession" } /\ last.arg = b

C17_ConstructorContract ==
    /\ Constructed(<< >>) =>
          /\ last.ret = "baseURL is required"
          /\ newErr = "baseURL is required"
          /\ Unbuilt
    /\ (last.op \in { "NewClient", "NewSession" } /\ last.arg # << >>) =>
          /\ last.ret = NoErr
          /\ Idle
          /\ \A c \in DOMAIN clients : GetAuthToken(clients, c) = ""
          /\ (last.op = "NewClient") => (DOMAIN clients = { "c1" } /\ sessions = << >>)
          /\ (last.op = "NewSession") =>
                /\ DOMAIN sessions = { "s1" }
                /\ sessions["s1"].Client \in DOMAIN clients
                /\ sessions["s1"].IsAuthenticated = FALSE
                /\ sessions["s1"].SessionToken = ""
                /\ sessions["s1"].User = ""
                /\ ~IsValidOf(sessions["s1"])
    /\ Idle

\* session.NewSession was called with an empty base URI
C17_Witness ==
    /\ last.op = "NewSession"
    /\ last.arg = << >>
    /\ last.ret = "baseURL is required"
    /\ sessions = << >>

----------------------------------------------------------------------------
(* pkg/authentication: NewSession, CloseSession, GetServerInfo; each call runs
   to its return, the transport's answers being inputs of the call *)

MaxAuthCalls == 3

Usernames == { "", "admin" }
Passwords == { "", "password" }

\* SessionOptions.AuthMethod: unset, or one of the named methods
AuthMethods == { "", "LDAP" }

SessionOptions ==
    [BaseURL : BaseURIs, Username : Usernames, Password : Passwords,
     AuthMethod : AuthMethods, SkipVersionCheck : BOOLEAN]

\* getAuthPath(method)
getAuthPath(method) ==
    CASE method = "LDAP"    -> "/Auth/LDAP/Logon"
      [] method = "RADIUS"  -> "/Auth/RADIUS/Logon"
      [] method = "Windows" -> "/Auth/Windows/Logon"
      [] OTHER              -> "/Auth/CyberArk/Logon"

\* logon response bodies, by what json.Unmarshal into a LoginResponse makes
\* of them: err: it returns an error; token: the Token it has set
LoginBodies ==
    ( "{\"CyberArkLogonResult\": \"test-token-123\"}" :> [err |-> FALSE, token |-> "test-token-123"] )
 @@ ( "\"test-token-456\"" :> [err |-> TRUE, token |-> ""] )
 @@ ( "test-token-789"     :> [err |-> TRUE, token |-> ""] )
 @@ ( "{}"                 :> [err |-> FALSE, token |-> ""] )
 @@ ( "null"               :> [err |-> FALSE, token |-> ""] )
 @@ ( "\"\""               :> [err |-> TRUE, token |-> ""] )
 @@ ( ""                   :> [err |-> TRUE, token |-> ""] )

\* trimQuotes(s) on the logon bodies: a text of two or more characters that
\* starts and ends with a double quote loses both, any other is unchanged
trimQuotes(s) ==
    CASE s = "\"test-token-456\"" -> "test-token-456"
      [] s = "\"\""              -> ""
      [] OTHER                   -> s

\* a token extraction without the plain-string fallback
LoginToken_NoFallback(body) == LoginBodies[body].token

\* the token NewSession takes from the logon response body
LoginToken(body) ==
    IF LoginBodies[body].err THEN trimQuotes(body) ELSE LoginBodies[body].token

\* server-info response bodies, by what json.Unmarshal into a ServerInfo
\* makes of them
ServerInfoBodies ==
    ( "{\"ExternalVersion\":\"14.0\"}" :> [err |-> FALSE, ExternalVersion |-> "14.0"] )
 @@ ( "{}"                           :> [err |-> FALSE, ExternalVersion |-> ""] )
 @@ ( "Service Unavailable"          :> [err |-> TRUE, ExternalVersion |-> ""] )

\* what the transport can answer to the logon request
LogonOutcomes(ctx) ==
    IF ctx = "cancelled"
    THEN { [kind |-> "error", cause |-> "context canceled"] }
    ELSE { [kind |-> "error", cause |-> "connection refused"] }
         \cup
         { [kind |-> "response", status |-> 200, body |-> b, readOK |-> TRUE] :
              b \in DOMAIN LoginBodies }
         \cup
         { [kind |-> "response", status |-> st, body |-> "", readOK |-> TRUE] :
              st \in { 401, 403 } }
         \cup
         { [kind |-> "response", status |-> 200, body |-> "", readOK |-> FALSE] }

\* what the transport can answer to the server-info request
ServerInfoOutcomes(ctx) ==
    IF ctx = "cancelled"
    THEN { [kind |-> "error", cause |-> "context canceled"] }
    ELSE { [kind |-> "error", cause |-> "connection refused"] }
         \cup
         { [kind |-> "response", status |-> 200, body |-> b, readOK |-> TRUE] :
              b \in DOMAIN ServerInfoBodies }
         \cup
         { [kind |-> "response", status |-> 404, body |-> "", readOK |-> TRUE] }

\* what the transport can answer to the log-off request
LogoffOutcomes(ctx) ==
    IF ctx = "cancelled"
    THEN { [kind |-> "error", cause |-> "context canceled"] }
    ELSE { [kind |-> "error", cause |-> "connection refused"] }
         \cup
         { [kind |-> "response", status |-> st, body |-> b, readOK |-> TRUE] :
              st \in { 200, 400, 401, 403, 500 }, b \in { "", "Service Unavailable" } }
         \cup
         { [kind |-> "response", status |-> st, body |-> "", readOK |-> FALSE] :
              st \in { 200, 401 } }

\* what (c *Client) Post(ctx, path, body) returns for transport outcome out
PostResult(cl, path, body, ctx, out) ==
    DoResult(cl, [Method |-> "POST", Path |-> path, Body |-> body,
                  QueryParams |-> << >>, Headers |-> << >>], ctx, out)

\* what (c *Client) Get(ctx, path, nil) returns for transport outcome out
GetResult(cl, path, ctx, out) ==
    DoResult(cl, [Method |-> "GET", Path |-> path, Body |-> NilBody,
                  QueryParams |-> << >>, Headers |-> << >>], ctx, out)

\* client.AsAPIError(err)
AsAPIError(err) == err.kind = "APIError"

\* an IsUnauthorized that takes 403 for 401 as well
IsUnauthorized_OrForbidden(e) == e.StatusCode \in { 401, 403 }

\* (e *APIError) IsUnauthorized()
IsUnauthorized(e) == e.StatusCode = 401

\* GetServerInfo(ctx, sess) for a non-nil session with Client struct cl:
\* [sent, ExternalVersion, err]
GetServerInfoResult(cl, ctx, out) ==
    LET r == GetResult(cl, "/WebServices/PIMServices.svc/Server", ctx, out) IN
    IF r.err # NoError
    THEN [sent |-> r.sent, ExternalVersion |-> "",
          err |-> [kind |-> "failed to get server info", cause |-> r.err]]
    ELSE IF ServerInfoBodies[r.resp.Body].err
    THEN [sent |-> r.sent, ExternalVersion |-> "",
          err |-> [kind |-> "failed to parse server info"]]
    ELSE [sent |-> r.sent, ExternalVersion |-> ServerInfoBodies[r.resp.Body].ExternalVersion,
          err |-> NoError]

\* the checks of NewSession on its options
MissingOption(opts) ==
    IF opts.BaseURL = << >> THEN "baseURL is required"
    ELSE IF opts.Username = "" THEN "username is required"
    ELSE IF opts.Password = "" THEN "password is required"
    ELSE NoErr

\* authentication.NewSession(ctx, opts); ctx and out are the context and the
\* transport's answer at the logon request, ctx2 and out2 those at the
\* server-info request (NoResp for a request that is never made)
AuthNewSession(opts, ctx, out, ctx2, out2) ==
    LET missing == MissingOption(opts)
        method == IF opts.AuthMethod = "" THEN "CyberArk" ELSE opts.AuthMethod
        n == NewClient(opts.BaseURL)
        login == PostResult(n.c, getAuthPath(method), "LoginRequest", ctx, out)
        token == LoginToken(login.resp.Body)
        cs == SetAuthToken([c \in {"c1"} |-> n.c], "c1", token)
        authed == SetAuthenticatedS(
                      NewSessionStruct(opts.BaseURL, "c1", n.c.apiURL, now),
                      <<opts.Username, token, method>>)
        info == GetServerInfoResult(cs["c1"], ctx2, out2)
        Return(ret, err, sent) ==
            last' = [op |-> "authentication.NewSession", opts |-> opts,
                     ctx |-> ctx, out |-> out, ctx2 |-> ctx2, out2 |-> out2,
                     ret |-> ret, err |-> err, sent |-> sent]
        Fail(err, sent) ==
            /\ Return(Nil, err, sent)
            /\ UNCHANGED <<clients, sessions, hist>>
        Succeed(sess, sent) ==
            /\ Return("s1", NoError, sent)
            /\ clients' = cs
            /\ sessions' = [i \in {"s1"} |-> sess]
            /\ hist' = [i \in {"s1"} |-> [st |-> "auth", tok |-> token]]
        NoSecond == out2 = NoResp /\ ctx2 = ctx
    IN  /\ Unbuilt
        /\ IF missing # NoErr
           THEN out = NoResp /\ NoSecond /\ Fail([kind |-> missing], 0)
           ELSE IF n.err # NoErr
           THEN out = NoResp /\ NoSecond
                /\ Fail([kind |-> "failed to create session", cause |-> n.err], 0)
           ELSE /\ out \in LogonOutcomes(ctx)
                /\ IF login.err # NoError
                   THEN NoSecond
                        /\ Fail([kind |-> "authentication failed", cause |-> login.err],
                                login.sent)
                   ELSE IF token = ""
                   THEN NoSecond
                        /\ Fail([kind |-> "no authentication token received"], login.sent)
                   ELSE IF opts.SkipVersionCheck
                   THEN NoSecond /\ Succeed(authed, login.sent)
                   ELSE /\ out2 \in ServerInfoOutcomes(ctx2)
                        /\ Succeed(IF info.err = NoError
                                   THEN SetVersionS(authed, info.ExternalVersion)
                                   ELSE authed,
                                   login.sent + info.sent)
        /\ UNCHANGED <<now, newErr, inflight>>

\* authentication.CloseSession(ctx, sess); a handle that is not allocated
\* stands for the nil *Session
CloseSession(i, ctx, out) ==
    /\ IF ~Live(i) \/ ~IsValidOf(sessions[i])
       THEN /\ out = NoResp
            /\ last' = [op |-> "CloseSession", s |-> i, ctx |-> ctx, out |-> out,
                        httpReq |-> NoReq, sent |-> 0, ret |-> NoError]
            /\ UNCHANGED <<sessions, hist>>
       ELSE LET r == PostResult(clients[sessions[i].Client], "/Auth/Logoff", NilBody,
                                ctx, out)
            IN  /\ out \in LogoffOutcomes(ctx)
                /\ IF r.err # NoError /\ ~(AsAPIError(r.err) /\ IsUnauthorized(r.err))
                   THEN /\ last' = [op |-> "CloseSession", s |-> i, ctx |-> ctx,
                                    out |-> out, httpReq |-> r.httpReq, sent |-> r.sent,
                                    ret |-> [kind |-> "failed to close session",
                                             cause |-> r.err]]
                        /\ UNCHANGED <<sessions, hist>>
                   ELSE /\ last' = [op |-> "CloseSession", s |-> i, ctx |-> ctx,
                                    out |-> out, httpReq |-> r.httpReq, sent |-> r.sent,
                                    ret |-> NoError]
                        /\ sessions' = [sessions EXCEPT ![i] = CloseS(@)]
                        /\ hist' = [hist EXCEPT ![i] = [st |-> "closed", tok |-> ""]]
    /\ UNCHANGED <<clients, now, newErr, inflight>>

\* the answers to the logon request of NewSession: none when the options are
\* rejected before it
LogonAnswers(opts, ctx) ==
    IF MissingOption(opts) # NoErr THEN { NoResp } ELSE LogonOutcomes(ctx)

\* a context that was ctx at one request, at a later request: a cancelled
\* context stays cancelled
LaterContexts(ctx) == IF ctx = "cancelled" THEN { "cancelled" } ELSE Contexts

\* the answers to the server-info request of NewSession: none when the
\* logon brought no response or the version check is skipped
ServerInfoAnswers(opts, ctx2, out) ==
    IF out = NoResp \/ opts.SkipVersionCheck
    THEN { NoResp }
    ELSE IF out.kind = "error" THEN { NoResp }
    ELSE ServerInfoOutcomes(ctx2) \cup { NoResp }

\* one more call of the single caller of the authentication package
CalledAuth ==
    /\ calls < MaxAuthCalls
    /\ calls' = calls + 1
    /\ UNCHANGED concVars

NextAuth ==
    \/ /\ Unbuilt
       /\ \E opts \in SessionOptions, ctx \in Contexts :
             \E out \in LogonAnswers(opts, ctx), ctx2 \in LaterContexts(ctx) :
                \E out2 \in ServerInfoAnswers(opts, ctx2, out) :
                   AuthNewSession(opts, ctx, out, ctx2, out2) /\ CalledAuth
    \/ \E i \in SessionIds, ctx \in Contexts,
          out \in LogoffOutcomes("active") \cup LogoffOutcomes("cancelled") \cup { NoResp } :
          CloseSession(i, ctx, out) /\ CalledAuth
    \/ \E i \in SessionIds, a \in AuthArgs : SetAuthenticated(i, a) /\ CalledAuth
    \/ \E i \in SessionIds : Close(i) /\ CalledAuth
    \/ \E i, j \in SessionIds : Clone(i, j) /\ CalledAuth
    \/ \E i \in SessionIds : IsValid(i) /\ CalledAuth
    \/ \E c \in ClientIds, t \in Tokens : SetAuthTokenCall(c, t) /\ UNCHANGED concVars

SpecAuth == Start /\ [][NextAuth]_vars

\* C18: no call changes the base URL or the API URL of a Client: in every
\* step (SetAuthToken, the requests of NewSession and CloseSession, the
\* Session operations) GetBaseURL() and GetAPIURL() keep their values, the API
\* URL is the base URL followed by "/PasswordVault/API", and the APIURI of
\* every Session equals GetAPIURL() of its Client.
C18_URLsFixed ==
    [][/\ \A c \in DOMAIN clients :
              /\ c \in DOMAIN clients'
              /\ GetAPIURL(clients', c) = GetAPIURL(clients, c)
              /\ GetBaseURL(clients', c) = GetBaseURL(clients, c)
       /\ \A c \in DOMAIN clients' :
              GetAPIURL(clients', c) = GetBaseURL(clients', c) \o <<"/PasswordVault/API">>
       /\ \A i \in DOMAIN sessions' :
              sessions'[i].APIURI = GetAPIURL(clients', sessions'[i].Client)]_vars

\* a session built from a URL with a trailing slash was cloned, the token of
\* its Client was replaced, and a log-off request was sent
C18_Witness ==
    /\ last.op = "CloseSession"
    /\ last.sent = 1
    /\ DOMAIN sessions = { "s1", "s2" }
    /\ sessions["s1"].BaseURI = <<"https://host", "/">>
    /\ GetAuthToken(clients, "c1") = "tok456"
    /\ GetBaseURL(clients, "c1") = <<"https://host">>
    /\ sessions["s2"].APIURI = <<"https://host", "/PasswordVault/API">>

\* C19: CloseSession on a valid session sends one log-off request (POST
\* /Auth/Logoff); when the request succeeds, or fails with an API error of
\* status 401, the session is closed (IsValid() false, SessionToken empty)
\* and nil is returned; on every other failure (any other status >= 400,
\* transport error, cancellation, unreadable body) a non-nil error is
\* returned and the Session is unchanged and still valid.
C19_CloseSessionOutcome ==
    [][\A i \in DOMAIN sessions :
          (/\ calls' = calls + 1
           /\ last'.op = "CloseSession"
           /\ last'.s = i
           /\ IsValidOf(sessions[i])) =>
              LET out == last'.out
                  benign == /\ out.kind = "response"
                            /\ out.readOK
                            /\ (out.status < 400 \/ out.status = 401)
              IN  /\ last'.sent = 1
                  /\ last'.httpReq.Method = "POST"
                  /\ last'.httpReq.URL = sessions[i].APIURI \o <<"/Auth/Logoff">>
                  /\ IF benign
                     THEN /\ last'.ret = NoError
                          /\ ~IsValidOf(sessions'[i])
                          /\ sessions'[i].SessionToken = ""
                     ELSE /\ last'.ret # NoError
                          /\ sessions' = sessions
                          /\ IsValidOf(sessions'[i])]_vars

\* the server answered the log-off of a valid session with 401
C19_Witness ==
    /\ last.op = "CloseSession"
    /\ last.sent = 1
    /\ last.out.kind = "response"
    /\ last.out.status = 401
    /\ last.ret = NoError
    /\ hist[last.s].st = "closed"
    /\ ~IsValidOf(sessions[last.s])

\* the token a logon response body carries
ReceivedToken ==
    ( "{\"CyberArkLogonResult\": \"test-token-123\"}" :> "test-token-123" )
 @@ ( "\"test-token-456\"" :> "test-token-456" )
 @@ ( "test-token-789"     :> "test-token-789" )
 @@ ( "{}"   :> "" )
 @@ ( "null" :> "" )
 @@ ( "\"\"" :> "" )
 @@ ( ""     :> "" )

\* the logon request of the call recorded in l was answered with a status
\* below 400, read in full
LogonAnswered(l) ==
    /\ l.out # NoResp
    /\ l.out.kind = "response"
    /\ l.out.readOK
    /\ l.out.status < 400

\* C20: authentication.NewSession returns either a Session and a nil error,
\* or no Session and a non-nil error. It returns a Session exactly when no
\* option is missing, the logon request succeeds and the token received is
\* not empty, whatever becomes of the version fetch; that Session is valid and
\* its SessionToken and its Client's token are the token received. With a
\* missing base URL, username or password it fails before any request.
C20_NewSessionOutcome ==
    last.op = "authentication.NewSession" =>
        LET o == last.opts
            missing == o.BaseURL = << >> \/ o.Username = "" \/ o.Password = ""
            granted == /\ ~missing
                       /\ LogonAnswered(last)
                       /\ ReceivedToken[last.out.body] # ""
        IN  /\ (last.ret = Nil) <=> (last.err # NoError)
            /\ missing => (last.sent = 0 /\ last.ret = Nil)
            /\ granted <=> (last.ret # Nil)
            /\ last.ret = Nil => sessions = << >>
            /\ last.ret # Nil =>
                  /\ Live(last.ret)
                  /\ IsValidOf(sessions[last.ret])
                  /\ sessions[last.ret].SessionToken = ReceivedToken[last.out.body]
                  /\ GetAuthToken(clients, sessions[last.ret].Client)
                        = ReceivedToken[last.out.body]

\* the logon succeeded with a quoted token and the version fetch failed
C20_Witness ==
    /\ last.op = "authentication.NewSession"
    /\ last.ret = "s1"
    /\ last.err = NoError
    /\ last.out.body = "\"test-token-456\""
    /\ last.out2 # NoResp
    /\ last.out2.kind = "error"
    /\ last.sent = 2
    /\ sessions["s1"].SessionToken = "test-token-456"
    /\ sessions["s1"].ExternalVersion = ""

\* the last call was a CloseSession that posted the log-off and closed the
\* session
ClosedByCloseSession ==
    /\ last.op = "CloseSession"
    /\ last.sent = 1
    /\ last.ret = NoError

\* C26: CloseSession on a nil Session, or on one for which IsValid() is
\* false, returns nil, sends no HTTP request and changes nothing; so a
\* CloseSession that follows one that closed the session sends no log-off
\* and leaves the Session and the Client as the first left them.
C26_CloseSessionIdempotent ==
    [][ /\ ( /\ last'.op = "CloseSession"
             /\ (~Live(last'.s) \/ ~IsValidOf(sessions[last'.s])) ) =>
               /\ last'.ret = NoError
               /\ last'.sent = 0
               /\ last'.httpReq = NoReq
               /\ clients' = clients
               /\ sessions' = sessions
               /\ hist' = hist
        /\ ( /\ ClosedByCloseSession
             /\ last'.op = "CloseSession"
             /\ last'.s = last.s ) =>
               /\ last'.ret = NoError
               /\ last'.sent = 0
               /\ clients' = clients
               /\ sessions' = sessions ]_vars

\* a CloseSession on a session that was logged on and then closed: it
\* returned nil and sent nothing
C26_Witness ==
    /\ last.op = "CloseSession"
    /\ Live(last.s)
    /\ hist[last.s].st = "closed"
    /\ sessions[last.s].User # ""
    /\ calls = MaxAuthCalls
    /\ last.ret = NoError
    /\ last.sent = 0
    /\ last.out = NoResp

----------------------------------------------------------------------------
(* The resource packages (pkg/accounts, pkg/safes) and GetServerInfo over the
   Session and the Client: one caller, at most MaxOpCalls calls *)

MaxOpCalls == 3

\* the account ID or safe name argument of an operation ("" where the
\* operation takes options only, or where the caller left it out)
OpArgs == { "", "12_3" }

\* url.PathEscape on the names used here
PathEscape(name) == IF name = "Test Safe" THEN "Test%20Safe" ELSE name

\* the operations: HTTP verb, path, request body, the argument check made
\* after the session check, the wrapping of a client error, and the error
\* for a response body that json.Unmarshal rejects (NoErr: body not parsed)
ResourceOps ==
    ( "accounts.List" :>
        [Method |-> "GET", Path |-> "/Accounts", Tail |-> "", WithArg |-> FALSE,
         Body |-> NilBody, Required |-> NoErr,
         Failed |-> "failed to list accounts", Parse |-> "failed to parse accounts response"] )
 @@ ( "accounts.Get" :>
        [Method |-> "GET", Path |-> "/Accounts/", Tail |-> "", WithArg |-> TRUE,
         Body |-> NilBody, Required |-> "accountID is required",
         Failed |-> "failed to get account", Parse |-> "failed to parse account response"] )
 @@ ( "accounts.Create" :>
        [Method |-> "POST", Path |-> "/Accounts", Tail |-> "", WithArg |-> FALSE,
         Body |-> "map[key:value]", Required |-> "safeName is required",
         Failed |-> "failed to create account", Parse |-> "failed to parse account response"] )
 @@ ( "accounts.Update" :>
        [Method |-> "PATCH", Path |-> "/Accounts/", Tail |-> "", WithArg |-> TRUE,
         Body |-> "map[key:value]", Required |-> "accountID is required",
         Failed |-> "failed to update account", Parse |-> "failed to parse account response"] )
 @@ ( "accounts.Delete" :>
        [Method |-> "DELETE", Path |-> "/Accounts/", Tail |-> "", WithArg |-> TRUE,
         Body |-> NilBody, Required |-> "accountID is required",
         Failed |-> "failed to delete account", Parse |-> NoErr] )
 @@ ( "accounts.GetPassword" :>
        [Method |-> "POST", Path |-> "/Accounts/", Tail |-> "/Password/Retrieve", WithArg |-> TRUE,
         Body |-> "map[key:value]", Required |-> "accountID is required",
         Failed |-> "failed to retrieve password", Parse |-> NoErr] )
 @@ ( "safes.List" :>
        [Method |-> "GET", Path |-> "/Safes", Tail |-> "", WithArg |-> FALSE,
         Body |-> NilBody, Required |-> NoErr,
         Failed |-> "failed to list safes", Parse |-> "failed to parse safes response"] )
 @@ ( "safes.Get" :>
        [Method |-> "GET", Path |-> "/Safes/", Tail |-> "", WithArg |-> TRUE,
         Body |-> NilBody, Required |-> "safeName is required",
         Failed |-> "failed to get safe", Parse |-> "failed to parse safe response"] )
 @@ ( "safes.Create" :>
        [Method |-> "POST", Path |-> "/Safes", Tail |-> "", WithArg |-> FALSE,
         Body |-> "map[key:value]", Required |-> "safeName is required",
         Failed |-> "failed to create safe", Parse |-> "failed to parse safe response"] )
 @@ ( "safes.Update" :>
        [Method |-> "PUT", Path |-> "/Safes/", Tail |-> "", WithArg |-> TRUE,
         Body |-> "map[key:value]", Required |-> "safeName is required",
         Failed |-> "failed to update safe", Parse |-> "failed to parse safe response"] )
 @@ ( "safes.Delete" :>
        [Method |-> "DELETE", Path |-> "/Safes/", Tail |-> "", WithArg |-> TRUE,
         Body |-> NilBody, Required |-> "safeName is required",
         Failed |-> "failed to delete safe", Parse |-> NoErr] )

\* response bodies of the resource operations: TRUE when json.Unmarshal
\* into the result struct returns an error
OpBodies == ( "{}" :> FALSE ) @@ ( "Service Unavailable" :> TRUE )

\* what the transport can answer to the request of a resource operation
OpOutcomes(ctx) ==
    IF ctx = "cancelled"
    THEN { [kind |-> "error", cause |-> "context canceled"] }
    ELSE { [kind |-> "error", cause |-> "connection refused"] }
         \cup
         { [kind |-> "response", status |-> 200, body |-> b, readOK |-> TRUE] :
              b \in DOMAIN OpBodies }
         \cup
         { [kind |-> "response", status |-> st, body |-> "", readOK |-> TRUE] :
              st \in { 401, 404 } }

\* a session check that tests for nil only
HasValidSession_NilOnly(ss, i) == i \in DOMAIN ss

\* the negation of `sess == nil || !sess.IsValid()`: handle i refers to a
\* Session (an unallocated handle is the nil pointer) and it is valid
HasValidSession(ss, i) == i \in DOMAIN ss /\ IsValidOf(ss[i])

\* the request the operation hands to the Client
OpRequest(op, arg) ==
    LET o == ResourceOps[op] IN
    [Method |-> o.Method,
     Path |-> IF ~o.WithArg THEN o.Path
              ELSE IF o.Path = "/Safes/" THEN o.Path \o PathEscape(arg)
              ELSE (o.Path \o arg) \o o.Tail,
     Body |-> o.Body, QueryParams |-> << >>, Headers |-> << >>]

\* the operation op(ctx, sess, arg) with sess the Session at handle i, for
\* transport outcome out: [sent, httpReq, err]
OpResult(cs, ss, i, op, arg, ctx, out) ==
    LET o == ResourceOps[op] IN
    IF ~HasValidSession(ss, i)
    THEN [sent |-> 0, httpReq |-> NoReq, err |-> [kind |-> "valid session is required"]]
    ELSE IF o.Required # NoErr /\ arg = ""
    THEN [sent |-> 0, httpReq |-> NoReq, err |-> [kind |-> o.Required]]
    ELSE LET r == DoResult(cs[ss[i].Client], OpRequest(op, arg), ctx, out) IN
         IF r.err # NoError
         THEN [sent |-> r.sent, httpReq |-> r.httpReq,
               err |-> [kind |-> o.Failed, cause |-> r.err]]
         ELSE IF o.Parse # NoErr /\ OpBodies[r.resp.Body]
         THEN [sent |-> r.sent, httpReq |-> r.httpReq, err |-> [kind |-> o.Parse]]
         ELSE [sent |-> r.sent, httpReq |-> r.httpReq, err |-> NoError]

\* the answers to the request of the operation: none when it returns before
\* the request
OpAnswers(i, op, arg, ctx) ==
    IF ~HasValidSession(sessions, i) \/ (ResourceOps[op].Required # NoErr /\ arg = "")
    THEN { NoResp }
    ELSE OpOutcomes(ctx)

\* a Do that drops the token of its Client when the server answers 401
ClientsAfterDo_DropsTokenOn401(cs, c, out) ==
    IF out # NoResp /\ out.kind = "response" /\ out.status = 401
    THEN SetAuthToken(cs, c, "")
    ELSE cs

\* the Clients after (c *Client) Do has returned with transport outcome out:
\* Do reads the fields of c and assigns none
ClientsAfterDo(cs, c, out) == cs

\* a call of a resource operation
ResourceOp(i, op, arg, ctx, out) ==
    LET r == OpResult(clients, sessions, i, op, arg, ctx, out) IN
    /\ out \in OpAnswers(i, op, arg, ctx)
    /\ last' = [op |-> op, s |-> i, arg |-> arg, ctx |-> ctx, out |-> out,
                sent |-> r.sent, httpReq |-> r.httpReq, err |-> r.err]
    /\ clients' = IF r.sent = 0 THEN clients
                  ELSE ClientsAfterDo(clients, sessions[i].Client, out)
    /\ UNCHANGED <<sessions, now, newErr, inflight, hist>>

\* a call of authentication.GetServerInfo(ctx, sess)
GetServerInfoCall(i, ctx, out) ==
    /\ IF ~Live(i)
       THEN /\ out = NoResp
            /\ last' = [op |-> "GetServerInfo", s |-> i, arg |-> "", ctx |-> ctx,
                        out |-> out, sent |-> 0, httpReq |-> NoReq,
                        err |-> [kind |-> "session is required"]]
       ELSE LET cl == clients[sessions[i].Client]
                r == GetServerInfoResult(cl, ctx, out)
                g == GetResult(cl, "/WebServices/PIMServices.svc/Server", ctx, out)
            IN  /\ out \in ServerInfoOutcomes(ctx)
                /\ last' = [op |-> "GetServerInfo", s |-> i, arg |-> "", ctx |-> ctx,
                            out |-> out, sent |-> r.sent, httpReq |-> g.httpReq,
                            err |-> r.err]
    /\ clients' = IF ~Live(i) THEN clients
                  ELSE ClientsAfterDo(clients, sessions[i].Client, out)
    /\ UNCHANGED <<sessions, now, newErr, inflight, hist>>

\* one more call of the single caller of the resource packages
CalledOp ==
    /\ calls < MaxOpCalls
    /\ calls' = calls + 1
    /\ UNCHANGED concVars

NextOps ==
    \/ \E i \in SessionIds, a \in AuthArgs : SetAuthenticated(i, a) /\ CalledOp
    \/ \E i \in SessionIds : Close(i) /\ CalledOp
    \/ \E i, j \in SessionIds : Clone(i, j) /\ CalledOp
    \/ /\ calls < MaxOpCalls
       /\ \E i \in SessionIds, op \in DOMAIN ResourceOps, arg \in OpArgs, ctx \in Contexts :
             \E out \in OpAnswers(i, op, arg, ctx) :
                ResourceOp(i, op, arg, ctx, out) /\ CalledOp
    \/ /\ calls < MaxOpCalls
       /\ \E i \in SessionIds, ctx \in Contexts :
             \E out \in ServerInfoOutcomes(ctx) \cup { NoResp } :
                GetServerInfoCall(i, ctx, out) /\ CalledOp

SpecOps == Init /\ [][NextOps]_vars

\* the last call was a resource operation
OpCalled == last.op \in DOMAIN ResourceOps

\* C21: a resource operation called with a nil Session, or with a Session
\* for which IsValid() is false, returns "valid session is required" and
\* sends no HTTP request; so an operation on a Session that was never
\* authenticated, or was closed and not authenticated again since, sends
\* nothing.
C21_SessionRequired ==
    OpCalled =>
       /\ ( (~Live(last.s) \/ ~IsValidOf(sessions[last.s])) =>
               /\ last.err = [kind |-> "valid session is required"]
               /\ last.sent = 0
               /\ last.httpReq = NoReq )
       /\ ( (Live(last.s) /\ hist[last.s].st \in { "new", "closed" }) => last.sent = 0 )

C21_Witness ==
    /\ OpCalled
    /\ Live(last.s)
    /\ hist[last.s].st = "closed"
    /\ sessions[last.s].User # ""
    /\ last.arg # ""
    /\ last.err = [kind |-> "valid session is required"]
    /\ last.sent = 0

\* the last call was one that goes through Do: a resource operation or
\* GetServerInfo
DoCalled == OpCalled \/ last.op = "GetServerInfo"

\* C25: Do changes no client or session state, whatever its outcome: over a
\* call that goes through Do (success, API error, 401 included, or transport
\* failure) the token of the Client and every field of every Session stay as
\* they were, so a valid session is still valid after a 401.
C25_DoFrame ==
    [][ DoCalled' =>
           /\ clients' = clients
           /\ sessions' = sessions
           /\ \A i \in DOMAIN sessions :
                 IsValidOf(sessions[i]) => IsValidOf(sessions'[i]) ]_vars

\* a resource operation on a valid session was answered 401: the session is
\* still valid and its Client still holds the token
C25_Witness ==
    /\ OpCalled
    /\ last.out # NoResp
    /\ last.out.kind = "response"
    /\ last.out.status = 401
    /\ last.err.kind = ResourceOps[last.op].Failed
    /\ IsValidOf(sessions[last.s])
    /\ GetAuthToken(clients, sessions[last.s].Client) = sessions[last.s].SessionToken

\* C27: every Session, original or clone, for which IsValid() is true holds
\* in SessionToken the token its Client holds, whatever was called on the
\* other Sessions that share the Client.
C27_TokensConsistent ==
    \A i \in DOMAIN sessions :
        IsValidOf(sessions[i]) =>
           sessions[i].SessionToken = GetAuthToken(clients, sessions[i].Client)

\* C28: while a Session is closed (Close() was the last of its Close and
\* SetAuthenticated calls) the token of its Client is empty, and a request
\* made through that Client on behalf of the closed Session, as by
\* GetServerInfo, carries no Authorization header.
C28_ClosedTokenNotSent ==
    /\ \A i \in DOMAIN sessions :
          hist[i].st = "closed" => GetAuthToken(clients, sessions[i].Client) = ""
    /\ ( /\ last.op = "GetServerInfo"
         /\ Live(last.s)
         /\ hist[last.s].st = "closed"
         /\ last.sent = 1 ) =>
           "Authorization" \notin DOMAIN last.httpReq.Header

----------------------------------------------------------------------------
(* internal/helpers: versions. The functions are pure: the inputs are drawn
   at the start and each call applies one function to them *)

MaxPart == 2

\* Version structs with components in 0..MaxPart
VersionStructs == [Major : 0..MaxPart, Minor : 0..MaxPart, Patch : 0..MaxPart]

\* version strings, as sequences of characters: "", "1", "1.2", "1.10",
\* "1.2.3", "v1.2", "2.0", "1.x", "1." and "1.2.3.x"
VersionStrings ==
    { << >>,
      <<"1">>,
      <<"1", ".", "2">>,
      <<"1", ".", "1", "0">>,
      <<"1", ".", "2", ".", "3">>,
      <<"v", "1", ".", "2">>,
      <<"2", ".", "0">>,
      <<"1", ".", "x">>,
      <<"1", ".">>,
      <<"1", ".", "2", ".", "3", ".", "x">> }

DigitValue ==
    ( "0" :> 0 ) @@ ( "1" :> 1 ) @@ ( "2" :> 2 ) @@ ( "3" :> 3 ) @@ ( "4" :> 4 )
 @@ ( "5" :> 5 ) @@ ( "6" :> 6 ) @@ ( "7" :> 7 ) @@ ( "8" :> 8 ) @@ ( "9" :> 9 )

\* strings.TrimPrefix(s, p) for a one-character prefix p
TrimPrefix(s, p) == IF Len(s) > 0 /\ s[1] = p THEN SubSeq(s, 2, Len(s)) ELSE s

\* strings.Split(s, "."): always at least one part
RECURSIVE SplitDots(_)
SplitDots(s) ==
    IF \A k \in 1..Len(s) : s[k] # "."
    THEN <<s>>
    ELSE LET k == CHOOSE x \in 1..Len(s) : s[x] = "." /\ \A y \in 1..(x - 1) : s[y] # "."
         IN  <<SubSeq(s, 1, k - 1)>> \o SplitDots(SubSeq(s, k + 1, Len(s)))

\* the value of a sequence of decimal digits
RECURSIVE DigitsValue(_)
DigitsValue(s) ==
    IF Len(s) = 0 THEN 0
    ELSE DigitsValue(SubSeq(s, 1, Len(s) - 1)) * 10 + DigitValue[s[Len(s)]]

\* strconv.Atoi(s) on texts short enough not to overflow: an optional sign
\* followed by one or more decimal digits
Atoi(s) ==
    LET signed == Len(s) > 0 /\ s[1] \in { "+", "-" }
        digits == IF signed THEN SubSeq(s, 2, Len(s)) ELSE s
    IN  IF Len(digits) = 0 \/ \E k \in 1..Len(digits) : digits[k] \notin DOMAIN DigitValue
        THEN [err |-> TRUE, n |-> 0]
        ELSE [err |-> FALSE,
              n |-> IF signed /\ s[1] = "-" THEN 0 - DigitsValue(digits) ELSE DigitsValue(digits)]

NilVersion == [Major |-> 0, Minor |-> 0, Patch |-> 0]

\* ParseVersion(v): [err, version]; err is NoErr or the error, version is
\* meaningful when err is NoErr
ParseVersion(v) ==
    LET parts == SplitDots(TrimPrefix(TrimPrefix(v, "v"), "V"))
        major == Atoi(parts[1])
        minor == IF Len(parts) >= 2 THEN Atoi(parts[2]) ELSE [err |-> FALSE, n |-> 0]
        patch == IF Len(parts) >= 3 THEN Atoi(parts[3]) ELSE [err |-> FALSE, n |-> 0]
    IN  IF major.err THEN [err |-> "invalid major version", version |-> NilVersion]
        ELSE IF minor.err THEN [err |-> "invalid minor version", version |-> NilVersion]
        ELSE IF patch.err THEN [err |-> "invalid patch version", version |-> NilVersion]
        ELSE [err |-> NoErr,
              version |-> [Major |-> major.n, Minor |-> minor.n, Patch |-> patch.n]]

\* a Compare that stops at the minor version
Compare_IgnoresPatch(v, other) ==
    IF v.Major # other.Major THEN (IF v.Major < other.Major THEN -1 ELSE 1)
    ELSE IF v.Minor # other.Minor THEN (IF v.Minor < other.Minor THEN -1 ELSE 1)
    ELSE 0

\* (v *Version) Compare(other)
Compare(v, other) ==
    IF v.Major # other.Major THEN (IF v.Major < other.Major THEN -1 ELSE 1)
    ELSE IF v.Minor # other.Minor THEN (IF v.Minor < other.Minor THEN -1 ELSE 1)
    ELSE IF v.Patch # other.Patch THEN (IF v.Patch < other.Patch THEN -1 ELSE 1)
    ELSE 0

\* (v *Version) GreaterThanOrEqual(other)
GreaterThanOrEqual(v, other) == Compare(v, other) >= 0

\* (v *Version) LessThan(other)
LessThan(v, other) == Compare(v, other) < 0

\* NewVersionRequirement(minVersion, maxVersion): [err, hasMin, MinVersion,
\* hasMax, MaxVersion]; hasMin and hasMax tell that the pointer is not nil
NewVersionRequirement(minVersion, maxVersion) ==
    LET mn == ParseVersion(minVersion)
        mx == ParseVersion(maxVersion)
    IN  IF minVersion # << >> /\ mn.err # NoErr
        THEN [err |-> mn.err, hasMin |-> FALSE, MinVersion |-> NilVersion,
              hasMax |-> FALSE, MaxVersion |-> NilVersion]
        ELSE IF maxVersion # << >> /\ mx.err # NoErr
        THEN [err |-> mx.err, hasMin |-> FALSE, MinVersion |-> NilVersion,
              hasMax |-> FALSE, MaxVersion |-> NilVersion]
        ELSE [err |-> NoErr,
              hasMin |-> minVersion # << >>,
              MinVersion |-> IF minVersion # << >> THEN mn.version ELSE NilVersion,
              hasMax |-> maxVersion # << >>,
              MaxVersion |-> IF maxVersion # << >> THEN mx.version ELSE NilVersion]

\* an IsSatisfied whose upper bound is exclusive
IsSatisfied_ExclusiveMax(r, version) ==
    /\ ~(r.hasMin /\ LessThan(version, r.MinVersion))
    /\ ~(r.hasMax /\ Compare(version, r.MaxVersion) >= 0)

\* (r *VersionRequirement) IsSatisfied(version)
IsSatisfied(r, version) ==
    /\ ~(r.hasMin /\ LessThan(version, r.MinVersion))
    /\ ~(r.hasMax /\ Compare(version, r.MaxVersion) > 0)

\* AssertVersionRequirement(currentVersion, minVersion, maxVersion,
\* privilegeCloudRequired, selfHostedRequired, isPrivilegeCloud): the error
\* returned (NoError for nil)
AssertVersionRequirement(currentVersion, minVersion, maxVersion, privilegeCloudRequired, selfHostedRequired, isPrivilegeCloud) ==
    LET current == ParseVersion(currentVersion)
        req == NewVersionRequirement(minVersion, maxVersion)
    IN  IF privilegeCloudRequired /\ ~isPrivilegeCloud
        THEN [kind |-> "this operation requires Privilege Cloud"]
        ELSE IF selfHostedRequired /\ isPrivilegeCloud
        THEN [kind |-> "this operation requires Self-Hosted (not supported in Privilege Cloud)"]
        ELSE IF current.err # NoErr
        THEN [kind |-> "failed to parse current version", cause |-> current.err]
        ELSE IF req.err # NoErr
        THEN [kind |-> "failed to create version requirement", cause |-> req.err]
        ELSE IF ~IsSatisfied(req, current.version)
        THEN IF minVersion # << >> /\ maxVersion # << >>
             THEN [kind |-> "this operation requires CyberArk version between"]
             ELSE IF minVersion # << >>
             THEN [kind |-> "this operation requires CyberArk version or higher"]
             ELSE IF maxVersion # << >>
             THEN [kind |-> "this operation requires CyberArk version or lower"]
             ELSE NoError
        ELSE NoError

\* the inputs of one comparison of three versions
CompareInputs ==
    [op : { "input" }, fn : { "Compare" },
     a : VersionStructs, b : VersionStructs, c : VersionStructs]

\* the inputs of one call of AssertVersionRequirement
AssertInputs ==
    [op : { "input" }, fn : { "AssertVersionRequirement" },
     currentVersion : VersionStrings, minVersion : VersionStrings,
     maxVersion : VersionStrings, privilegeCloudRequired : BOOLEAN,
     selfHostedRequired : BOOLEAN, isPrivilegeCloud : BOOLEAN]

InitVer ==
    /\ clients = << >>
    /\ sessions = << >>
    /\ hist = << >>
    /\ now = 1
    /\ newErr = NoErr
    /\ inflight = NoReq
    /\ calls = 0
    /\ InitConcIdle
    /\ last \in CompareInputs \cup AssertInputs

\* the comparisons among the versions a, b and c
CompareCall ==
    /\ last.op = "input"
    /\ last.fn = "Compare"
    /\ last' = [op |-> "Compare", a |-> last.a, b |-> last.b, c |-> last.c,
                ab |-> Compare(last.a, last.b), ba |-> Compare(last.b, last.a),
                bc |-> Compare(last.b, last.c), ac |-> Compare(last.a, last.c),
                ge |-> GreaterThanOrEqual(last.a, last.b),
                lt |-> LessThan(last.a, last.b)]
    /\ UNCHANGED <<clients, sessions, now, newErr, inflight, calls, hist, mu, procs, shadow>>

\* a call of AssertVersionRequirement
AssertVersionRequirementCall ==
    /\ last.op = "input"
    /\ last.fn = "AssertVersionRequirement"
    /\ last' = [op |-> "AssertVersionRequirement",
                currentVersion |-> last.currentVersion,
                minVersion |-> last.minVersion, maxVersion |-> last.maxVersion,
                privilegeCloudRequired |-> last.privilegeCloudRequired,
                selfHostedRequired |-> last.selfHostedRequired,
                isPrivilegeCloud |-> last.isPrivilegeCloud,
                err |-> AssertVersionRequirement(last.currentVersion, last.minVersion,
                           last.maxVersion, last.privilegeCloudRequired,
                           last.selfHostedRequired, last.isPrivilegeCloud)]
    /\ UNCHANGED <<clients, sessions, now, newErr, inflight, calls, hist, mu, procs, shadow>>

NextVer ==
    \/ CompareCall
    \/ AssertVersionRequirementCall

SpecVer == InitVer /\ [][NextVer]_vars

\* a is before b in the lexicographic order on (Major, Minor, Patch)
LexLess(a, b) ==
    \/ a.Major < b.Major
    \/ a.Major = b.Major /\ a.Minor < b.Minor
    \/ a.Major = b.Major /\ a.Minor = b.Minor /\ a.Patch < b.Patch

\* the string is a version: up to three dot-separated integers after an
\* optional "v" or "V" (what follows a third integer is not looked at)
Parses(s) == ParseVersion(s).err = NoErr

\* the version requirement of the call in last holds of its current version
InRange ==
    LET cur == ParseVersion(last.currentVersion).version
    IN  /\ last.minVersion # << >> =>
              ~LexLess(cur, ParseVersion(last.minVersion).version)
        /\ last.maxVersion # << >> =>
              ~LexLess(ParseVersion(last.maxVersion).version, cur)

\* C22: AssertVersionRequirement returns nil exactly when the deployment
\* type is the required one, the current version parses, every non-empty
\* bound parses and min <= current <= max (inclusive, an empty bound
\* unconstrained); otherwise the error is that of the first failing check in
\* the order Privilege Cloud, Self-Hosted, current version, bounds, range.
C22_AssertVersionRequirement ==
    last.op = "AssertVersionRequirement" =>
       LET pc == last.privilegeCloudRequired => last.isPrivilegeCloud
           sh == last.selfHostedRequired => ~last.isPrivilegeCloud
           cur == Parses(last.currentVersion)
           bounds == /\ last.minVersion # << >> => Parses(last.minVersion)
                     /\ last.maxVersion # << >> => Parses(last.maxVersion)
       IN  /\ last.err = NoError <=> (pc /\ sh /\ cur /\ bounds /\ InRange)
           /\ last.err # NoError =>
                 last.err.kind =
                    IF ~pc THEN "this operation requires Privilege Cloud"
                    ELSE IF ~sh
                    THEN "this operation requires Self-Hosted (not supported in Privilege Cloud)"
                    ELSE IF ~cur THEN "failed to parse current version"
                    ELSE IF ~bounds THEN "failed to create version requirement"
                    ELSE IF last.minVersion # << >> /\ last.maxVersion # << >>
                    THEN "this operation requires CyberArk version between"
                    ELSE IF last.minVersion # << >>
                    THEN "this operation requires CyberArk version or higher"
                    ELSE "this operation requires CyberArk version or lower"

\* the current version equals the upper bound and the call succeeds
C22_Witness ==
    /\ last.op = "AssertVersionRequirement"
    /\ last.currentVersion = <<"1", ".", "1", "0">>
    /\ last.minVersion = <<"1", ".", "2">>
    /\ last.maxVersion = <<"1", ".", "1", "0">>
    /\ last.privilegeCloudRequired
    /\ last.isPrivilegeCloud
    /\ last.err = NoError

\* C23: Compare is the lexicographic total order on (Major, Minor, Patch):
\* its value is -1, 0 or 1, it is 0 exactly for equal components and -1
\* exactly when the first differing component is smaller, Compare(a, b) is
\* -Compare(b, a), it is transitive, and GreaterThanOrEqual is the negation
\* of LessThan.
C23_CompareTotalOrder ==
    last.op = "Compare" =>
       /\ last.ab \in { -1, 0, 1 }
       /\ last.ab = 0 <=> ( /\ last.a.Major = last.b.Major
                            /\ last.a.Minor = last.b.Minor
                            /\ last.a.Patch = last.b.Patch )
       /\ last.ab = -1 <=> LexLess(last.a, last.b)
       /\ last.ab = 0 - last.ba
       /\ (last.ab <= 0 /\ last.bc <= 0) => last.ac <= 0
       /\ (last.ab < 0 /\ last.bc <= 0) => last.ac < 0
       /\ (last.ab <= 0 /\ last.bc < 0) => last.ac < 0
       /\ last.ge = ~last.lt

\* three versions that differ in the patch only, in increasing order
C23_Witness ==
    /\ last.op = "Compare"
    /\ last.a.Major = last.b.Major /\ last.a.Minor = last.b.Minor
    /\ last.b.Major = last.c.Major /\ last.b.Minor = last.c.Minor
    /\ last.ab = -1 /\ last.bc = -1 /\ last.ac = -1
    /\ last.ba = 1
    /\ ~last.ge

----------------------------------------------------------------------------
(* Goroutines sharing one Session: every field access is a step *)

Procs == { "g1", "g2", "g3" }
Shared == "s1"

\* the calls a goroutine may make on the shared session
ConcCalls ==
    { [op |-> "SetAuthenticated", arg |-> a] :
          a \in { <<"alice", "tok123", "CyberArk">>, <<"bob", "tok456", "LDAP">> } }
    \cup { [op |-> "SetVersion", arg |-> "14.0"],
           [op |-> "SetPrivilegeCloud", arg |-> TRUE],
           [op |-> "UpdateLastCommand", arg |-> "Get-PASAccount"],
           [op |-> "UpdateLastError", arg |-> "testError"],
           [op |-> "Close", arg |-> Nil],
           [op |-> "GetElapsedTime", arg |-> Nil],
           [op |-> "IsValid", arg |-> Nil],
           [op |-> "Clone", arg |-> Nil] }

Writers == { "SetAuthenticated", "SetVersion", "SetPrivilegeCloud",
             "UpdateLastCommand", "UpdateLastError", "Close" }

\* the assignments of a method that takes s.mu.Lock(), in program order:
\* the target, the value, and whether the value is time.Now()
WritesOf(c) ==
    CASE c.op = "SetAuthenticated" ->
           << <<"User", c.arg[1], FALSE>>, <<"SessionToken", c.arg[2], FALSE>>,
              <<"AuthMethod", c.arg[3], FALSE>>, <<"IsAuthenticated", TRUE, FALSE>>,
              <<"Client.authToken", c.arg[2], FALSE>> >>
      [] c.op = "SetVersion" -> << <<"ExternalVersion", c.arg, FALSE>> >>
      [] c.op = "SetPrivilegeCloud" -> << <<"PrivilegeCloud", c.arg, FALSE>> >>
      [] c.op = "UpdateLastCommand" ->
           << <<"LastCommand", c.arg, FALSE>>, <<"LastCommandTime", Nil, TRUE>> >>
      [] c.op = "UpdateLastError" ->
           << <<"LastError", c.arg, FALSE>>, <<"LastErrorTime", Nil, TRUE>> >>
      [] c.op = "Close" ->
           << <<"IsAuthenticated", FALSE, FALSE>>, <<"SessionToken", "", FALSE>> >>

\* the fields a method that takes s.mu.RLock() reads, in program order
ReadsOf(c) ==
    CASE c.op = "GetElapsedTime" -> <<"StartTime">>
      [] c.op = "IsValid" -> <<"IsAuthenticated", "SessionToken">>
      [] c.op = "Clone" ->
           <<"Client", "BaseURI", "APIURI", "User", "ExternalVersion", "StartTime",
             "IsAuthenticated", "AuthMethod", "SessionToken", "PrivilegeCloud">>

\* the Session struct with every field at Go's zero value
ZeroSession ==
    [Client |-> Nil, BaseURI |-> << >>, APIURI |-> << >>, User |-> "",
     ExternalVersion |-> "", StartTime |-> ZeroTime, LastCommand |-> "",
     LastCommandTime |-> ZeroTime, LastError |-> NoErr, LastErrorTime |-> ZeroTime,
     IsAuthenticated |-> FALSE, AuthMethod |-> "", SessionToken |-> "",
     PrivilegeCloud |-> FALSE]

\* the call as one indivisible step on the pair (session, client token); t is
\* the time the call read
Atomic(c, t, sh) ==
    CASE c.op = "SetAuthenticated" ->
           [sess |-> SetAuthenticatedS(sh.sess, c.arg), tok |-> c.arg[2]]
      [] c.op = "SetVersion" -> [sh EXCEPT !.sess = SetVersionS(@, c.arg)]
      [] c.op = "SetPrivilegeCloud" -> [sh EXCEPT !.sess = SetPrivilegeCloudS(@, c.arg)]
      [] c.op = "UpdateLastCommand" -> [sh EXCEPT !.sess = UpdateLastCommandS(@, c.arg, t)]
      [] c.op = "UpdateLastError" -> [sh EXCEPT !.sess = UpdateLastErrorS(@, c.arg, t)]
      [] c.op = "Close" -> [sh EXCEPT !.sess = CloseS(@)]

\* no call yet, no snapshot taken yet, nothing returned yet
NotYet == [nil |-> TRUE]

\* a goroutine that has not called yet; ret holds the value returned, as
\* [v |-> value]
IdleProc == [pc |-> "idle", call |-> NotYet, k |-> 0, loc |-> << >>, t |-> ZeroTime,
             snap |-> NotYet, ret |-> NotYet]

\* the state after session.NewSession succeeded, before any goroutine starts
InitConc ==
    /\ \E b \in BaseURIs \ { << >> } : NewSession(b)
    /\ calls = 0
    /\ mu = Unlocked
    /\ procs = [p \in Procs |-> IdleProc]
    /\ shadow = [sess |-> sessions[Shared], tok |-> GetAuthToken(clients, sessions[Shared].Client)]

seqVars == <<newErr, last, inflight, calls, hist>>

\* goroutine p calls a method of the shared session
CallStart(p, c) ==
    /\ procs[p].pc = "idle"
    /\ procs' = [procs EXCEPT ![p] = [IdleProc EXCEPT !.pc = "lock", !.call = c]]
    /\ UNCHANGED <<clients, sessions, now, mu, shadow>>

\* a reader that lets itself in whatever the writer side says
RLockFree_Always(m) == TRUE

\* RLock() goes through when no goroutine has taken the writer side
RLockFree(m) == m.w = {}

\* s.mu.Lock(), first half: take the writer side
LockW(p) ==
    /\ procs[p].pc = "lock"
    /\ procs[p].call.op \in Writers
    /\ mu.w = {}
    /\ mu' = [mu EXCEPT !.w = {p}]
    /\ procs' = [procs EXCEPT ![p].pc = "wait"]
    /\ UNCHANGED <<clients, sessions, now, shadow>>

\* a writer that does not wait for the readers
ReadersGone_Always(m) == TRUE

\* the writer that has taken the writer side goes on when no reader is inside
ReadersGone(m) == m.r = {}

\* s.mu.Lock(), second half: wait until the readers have left
LockIn(p) ==
    /\ procs[p].pc = "wait"
    /\ ReadersGone(mu)
    /\ mu' = [mu EXCEPT !.in = TRUE]
    /\ procs' = [procs EXCEPT ![p].pc = "body", ![p].k = 1]
    /\ UNCHANGED <<clients, sessions, now, shadow>>

\* s.mu.RLock()
RLock(p) ==
    /\ procs[p].pc = "lock"
    /\ procs[p].call.op \notin Writers
    /\ RLockFree(mu)
    /\ mu' = [mu EXCEPT !.r = @ \cup {p}]
    /\ procs' = [procs EXCEPT ![p].pc = "body", ![p].k = 1, ![p].snap = shadow]
    /\ UNCHANGED <<clients, sessions, now, shadow>>

\* one assignment of the method p is in
WriteStep(p) ==
    LET c == procs[p].call
        w == WritesOf(c)[procs[p].k]
        nxt == IF procs[p].k = Len(WritesOf(c)) THEN "unlock" ELSE "body" IN
    /\ procs[p].pc = "body"
    /\ c.op \in Writers
    /\ IF w[1] = "Client.authToken"
       THEN /\ clients' = SetAuthToken(clients, sessions[Shared].Client, w[2])
            /\ procs' = [procs EXCEPT ![p].pc = nxt, ![p].k = @ + 1]
            /\ UNCHANGED <<sessions, now>>
       ELSE IF w[3]
       THEN /\ \E t \in now..MaxTime :
                 /\ now' = t
                 /\ sessions' = [sessions EXCEPT ![Shared][w[1]] = t]
                 /\ procs' = [procs EXCEPT ![p].pc = nxt, ![p].k = @ + 1, ![p].t = t]
            /\ UNCHANGED clients
       ELSE /\ sessions' = [sessions EXCEPT ![Shared][w[1]] = w[2]]
            /\ procs' = [procs EXCEPT ![p].pc = nxt, ![p].k = @ + 1]
            /\ UNCHANGED <<clients, now>>
    /\ UNCHANGED <<mu, shadow>>

\* one field read of the method p is in; IsValid stops at a false flag
ReadStep(p) ==
    LET c == procs[p].call
        f == ReadsOf(c)[procs[p].k]
        v == sessions[Shared][f]
        stop == \/ procs[p].k = Len(ReadsOf(c))
                \/ c.op = "IsValid" /\ f = "IsAuthenticated" /\ v = FALSE IN
    /\ procs[p].pc = "body"
    /\ c.op \notin Writers
    /\ procs' = [procs EXCEPT ![p].pc = IF stop THEN "unlock" ELSE "body",
                              ![p].k = @ + 1,
                              ![p].loc = (f :> v) @@ @]
    /\ UNCHANGED <<clients, sessions, now, mu, shadow>>

\* a return that leaves the writer side taken
Unlock_KeepsLock(p) ==
    /\ procs[p].pc = "unlock"
    /\ procs[p].call.op \in Writers
    /\ shadow' = Atomic(procs[p].call, procs[p].t, shadow)
    /\ procs' = [procs EXCEPT ![p].pc = "done"]
    /\ UNCHANGED <<clients, sessions, now, mu>>

\* the deferred s.mu.Unlock(): the call has taken effect
Unlock(p) ==
    /\ procs[p].pc = "unlock"
    /\ procs[p].call.op \in Writers
    /\ mu' = [mu EXCEPT !.w = {}, !.in = FALSE]
    /\ shadow' = Atomic(procs[p].call, procs[p].t, shadow)
    /\ procs' = [procs EXCEPT ![p].pc = "done"]
    /\ UNCHANGED <<clients, sessions, now>>

\* the value a reading method returns from what it has read
ReturnOf(c, loc, t) ==
    CASE c.op = "GetElapsedTime" -> t - loc.StartTime
      [] c.op = "IsValid" ->
           IF loc.IsAuthenticated THEN loc.SessionToken # "" ELSE FALSE
      [] c.op = "Clone" -> loc @@ ZeroSession

\* the return of a reading method and its deferred s.mu.RUnlock()
RUnlock(p) ==
    /\ procs[p].pc = "unlock"
    /\ procs[p].call.op \notin Writers
    /\ \E t \in now..MaxTime :
         /\ now' = IF procs[p].call.op = "GetElapsedTime" THEN t ELSE now
         /\ procs' = [procs EXCEPT ![p].pc = "done",
                                   ![p].ret = [v |-> ReturnOf(procs[p].call, procs[p].loc,
                                                              now')]]
    /\ mu' = [mu EXCEPT !.r = @ \ {p}]
    /\ UNCHANGED <<clients, sessions, shadow>>

NextConc ==
    \/ \E p \in Procs, c \in ConcCalls : CallStart(p, c) /\ UNCHANGED seqVars
    \/ \E p \in Procs : LockW(p) /\ UNCHANGED seqVars
    \/ \E p \in Procs : LockIn(p) /\ UNCHANGED seqVars
    \/ \E p \in Procs : RLock(p) /\ UNCHANGED seqVars
    \/ \E p \in Procs : WriteStep(p) /\ UNCHANGED seqVars
    \/ \E p \in Procs : ReadStep(p) /\ UNCHANGED seqVars
    \/ \E p \in Procs : Unlock(p) /\ UNCHANGED seqVars
    \/ \E p \in Procs : RUnlock(p) /\ UNCHANGED seqVars

SpecConc == InitConc /\ [][NextConc]_vars

\* C7: under any interleaving every call takes effect atomically: whenever no
\* writer is inside the lock, the session and its client's token are what the
\* calls that have taken effect give when run one after another in the order
\* they held the lock, and every IsValid and Clone returns what it would
\* return in that sequential run at the moment it took the lock.
C7_CallsAtomic ==
    /\ ~mu.in =>
          /\ sessions[Shared] = shadow.sess
          /\ GetAuthToken(clients, sessions[Shared].Client) = shadow.tok
    /\ \A p \in Procs :
          procs[p].pc = "done" =>
             /\ procs[p].call.op = "IsValid" =>
                   procs[p].ret.v = IsValidOf(procs[p].snap.sess)
             /\ procs[p].call.op = "Clone" =>
                   procs[p].ret.v = CloneStruct(procs[p].snap.sess)

\* a Clone is reading the fields one SetAuthenticated has left while a second
\* SetAuthenticated, with other arguments, waits in Lock() for it to finish
C7_Witness ==
    \E p, q, r \in Procs :
        /\ procs[p].pc = "body"
        /\ procs[p].call.op = "Clone"
        /\ "User" \in DOMAIN procs[p].loc
        /\ procs[p].loc.User = "alice"
        /\ "SessionToken" \notin DOMAIN procs[p].loc
        /\ procs[q].pc = "wait"
        /\ procs[q].call = [op |-> "SetAuthenticated", arg |-> <<"bob", "tok456", "LDAP">>]
        /\ procs[r].pc = "done"
        /\ procs[r].call = [op |-> "SetAuthenticated", arg |-> <<"alice", "tok123", "CyberArk">>]

\* goroutine p is between its Lock() or RLock() and the deferred unlock
Inside(p) == procs[p].pc \in { "body", "unlock" }

\* C24: every method accesses the fields of the Session with the lock held,
\* from its first access to its return, and makes no HTTP call meanwhile; a
\* writer inside the lock is alone there: no reader and no other writer is
\* inside with it; readers may be inside together.
C24_LockDiscipline ==
    /\ \A p \in DOMAIN procs :
          /\ (Inside(p) /\ procs[p].call.op \in Writers) =>
                /\ mu.in
                /\ mu.w = { p }
                /\ mu.r = {}
                /\ \A q \in DOMAIN procs \ { p } : ~Inside(q)
          /\ (Inside(p) /\ procs[p].call.op \notin Writers) =>
                /\ p \in mu.r
                /\ ~mu.in
          /\ p \in mu.r => Inside(p)
    /\ mu.in => \E p \in DOMAIN procs : Inside(p) /\ procs[p].call.op \in Writers
    /\ (mu.in \/ mu.r # {}) => inflight = NoReq

\* two readers are inside the lock together, one in the middle of its reads
\* and one about to return, while a writer waits for them
C24_Witness ==
    \E p, q, r \in DOMAIN procs :
        /\ p # q
        /\ procs[p].pc = "body" /\ procs[p].call.op = "Clone" /\ procs[p].k > 1
        /\ procs[q].pc = "unlock" /\ procs[q].call.op = "IsValid"
        /\ { p, q } \subseteq mu.r
        /\ procs[r].pc = "wait"

\* a step of goroutine p inside the call it has started
ProcStep(p) ==
    /\ \/ LockW(p)
       \/ LockIn(p)
       \/ RLock(p)
       \/ WriteStep(p)
       \/ ReadStep(p)
       \/ Unlock(p)
       \/ RUnlock(p)
    /\ UNCHANGED seqVars

\* where each goroutine is in its call; every step of a call changes it
progress == [p \in Procs |-> <<procs[p].pc, procs[p].k>>]

\* the goroutines under a fair scheduler, on a Session built for one base
\* URI: a goroutine that can take a step of its call, and stays able to,
\* takes it eventually
InitConcFair ==
    /\ InitConc
    /\ sessions[Shared].BaseURI = <<"https://host">>

SpecConcFair ==
    /\ InitConcFair
    /\ [][NextConc]_vars
    /\ \A p \in Procs : WF_progress(ProcStep(p))

\* C30: the lock of the Session never deadlocks: under fair scheduling
\* every call a goroutine has started on the shared Session (SetAuthenticated,
\* SetVersion, SetPrivilegeCloud, UpdateLastCommand, UpdateLastError,
\* GetElapsedTime, Close, Clone, IsValid), whatever the other goroutines
\* call meanwhile, eventually returns.
C30_EveryCallReturns ==
    \A p \in Procs : (procs[p].pc # "idle") ~> (procs[p].pc = "done")

\* three calls have returned: a writer that had to wait for a reader, the
\* reader, and a second writer
C30_Witness ==
    \E p, q, r \in Procs :
        /\ p # q /\ q # r /\ p # r
        /\ procs[p].pc = "done" /\ procs[p].call.op = "Close"
        /\ procs[q].pc = "done" /\ procs[q].call.op = "Clone"
        /\ procs[q].ret.v.IsAuthenticated
        /\ procs[r].pc = "done" /\ procs[r].call.op = "SetAuthenticated"
        /\ ~IsValidOf(sessions[Shared])

----------------------------------------------------------------------------
(* Goroutines using a Session and its clone, which share one Client: the
   accesses to the token of the Client are steps of their own *)

\* the calls a goroutine may make: SetAuthenticated on either Session, or a
\* resource operation (accounts.Get) through either Session
RaceCalls ==
    { [op |-> "SetAuthenticated", s |-> i, arg |-> a] :
          i \in SessionIds,
          a \in { <<"alice", "tok123", "CyberArk">>, <<"bob", "tok456", "LDAP">> } }
    \cup { [op |-> "accounts.Get", s |-> i, arg |-> "12_3"] : i \in SessionIds }

IdleCaller == [pc |-> "idle", call |-> Nil, hdr |-> Nil, err |-> NoError]

\* the state after session.NewSession succeeded, before any goroutine
\* starts; mu holds, per Session, the goroutine inside its s.mu.Lock()
InitRace ==
    /\ NewSession(<<"https://host">>)
    /\ calls = 0
    /\ mu = [i \in DOMAIN sessions |-> {}]
    /\ procs = [p \in Procs |-> IdleCaller]
    /\ shadow = << >>

\* before the goroutines start, the Session is cloned: the clone has a
\* mutex of its own and the Client of the original
RaceClone ==
    /\ \A p \in Procs : procs[p].pc = "idle"
    /\ ~Live("s2")
    /\ Clone("s1", "s2")
    /\ mu' = ("s2" :> {}) @@ mu
    /\ UNCHANGED <<procs, shadow, calls>>

\* goroutine p calls c
RaceStart(p, c) ==
    /\ procs[p].pc = "idle"
    /\ Live(c.s)
    /\ procs' = [procs EXCEPT ![p] = [IdleCaller EXCEPT
                     !.pc = IF c.op = "SetAuthenticated" THEN "lock" ELSE "valid",
                     !.call = c]]
    /\ UNCHANGED <<clients, sessions, mu>>

\* SetAuthenticated: s.mu.Lock() of the Session it was called on
RaceLock(p) ==
    /\ procs[p].pc = "lock"
    /\ mu[procs[p].call.s] = {}
    /\ mu' = [mu EXCEPT ![procs[p].call.s] = { p }]
    /\ procs' = [procs EXCEPT ![p].pc = "fields"]
    /\ UNCHANGED <<clients, sessions>>

\* SetAuthenticated: the assignments to the fields of the Session
RaceWriteFields(p) ==
    /\ procs[p].pc = "fields"
    /\ sessions' = [sessions EXCEPT ![procs[p].call.s] =
                       SetAuthenticatedS(@, procs[p].call.arg)]
    /\ procs' = [procs EXCEPT ![p].pc = "tokenWrite"]
    /\ UNCHANGED <<clients, mu>>

\* SetAuthenticated: s.Client.SetAuthToken(token), the write of c.authToken
RaceWriteToken(p) ==
    /\ procs[p].pc = "tokenWrite"
    /\ clients' = SetAuthToken(clients, sessions[procs[p].call.s].Client,
                               procs[p].call.arg[2])
    /\ procs' = [procs EXCEPT ![p].pc = "unlock"]
    /\ UNCHANGED <<sessions, mu>>

\* SetAuthenticated: the deferred s.mu.Unlock()
RaceUnlock(p) ==
    /\ procs[p].pc = "unlock"
    /\ mu' = [mu EXCEPT ![procs[p].call.s] = {}]
    /\ procs' = [procs EXCEPT ![p].pc = "done"]
    /\ UNCHANGED <<clients, sessions>>

\* accounts.Get: the session check; IsValid() runs under s.mu.RLock()
RaceIsValid(p) ==
    /\ procs[p].pc = "valid"
    /\ mu[procs[p].call.s] = {}
    /\ procs' = IF HasValidSession(sessions, procs[p].call.s)
                THEN [procs EXCEPT ![p].pc = "tokenTest"]
                ELSE [procs EXCEPT ![p].pc = "done",
                                   ![p].err = [kind |-> "valid session is required"]]
    /\ UNCHANGED <<clients, sessions, mu>>

\* the values a read of c.authToken can give: the stored token, and, when
\* a goroutine is at its write of the same field with nothing ordering the
\* two accesses, also the token being written or a torn string
TokenReadable(c) ==
    { clients[c].authToken }
    \cup UNION { { procs[q].call.arg[2], "torn" } :
                   q \in { x \in Procs : /\ procs[x].pc = "tokenWrite"
                                          /\ sessions[procs[x].call.s].Client = c } }

\* Do: the read of c.authToken in `if c.authToken != ""`
RaceTestToken(p) ==
    /\ procs[p].pc = "tokenTest"
    /\ \E v \in TokenReadable(sessions[procs[p].call.s].Client) :
          procs' = [procs EXCEPT ![p].pc = IF v = "" THEN "request" ELSE "tokenRead"]
    /\ UNCHANGED <<clients, sessions, mu>>

\* Do: the read of c.authToken in httpReq.Header.Set("Authorization", ...)
RaceReadToken(p) ==
    /\ procs[p].pc = "tokenRead"
    /\ \E v \in TokenReadable(sessions[procs[p].call.s].Client) :
          procs' = [procs EXCEPT ![p].pc = "request", ![p].hdr = v]
    /\ UNCHANGED <<clients, sessions, mu>>

\* Do: the HTTP exchange, and the return of the operation
RaceReturn(p) ==
    /\ procs[p].pc = "request"
    /\ procs' = [procs EXCEPT ![p].pc = "done"]
    /\ UNCHANGED <<clients, sessions, mu>>

NextRace ==
    \/ RaceClone
    \/ \E p \in Procs, c \in RaceCalls : RaceStart(p, c) /\ UNCHANGED <<seqVars, now, shadow>>
    \/ \E p \in Procs : RaceLock(p) /\ UNCHANGED <<seqVars, now, shadow>>
    \/ \E p \in Procs : RaceWriteFields(p) /\ UNCHANGED <<seqVars, now, shadow>>
    \/ \E p \in Procs : RaceWriteToken(p) /\ UNCHANGED <<seqVars, now, shadow>>
    \/ \E p \in Procs : RaceUnlock(p) /\ UNCHANGED <<seqVars, now, shadow>>
    \/ \E p \in Procs : RaceIsValid(p) /\ UNCHANGED <<seqVars, now, shadow>>
    \/ \E p \in Procs : RaceTestToken(p) /\ UNCHANGED <<seqVars, now, shadow>>
    \/ \E p \in Procs : RaceReadToken(p) /\ UNCHANGED <<seqVars, now, shadow>>
    \/ \E p \in Procs : RaceReturn(p) /\ UNCHANGED <<seqVars, now, shadow>>

SpecRace == InitRace /\ [][NextRace]_vars

\* goroutine p is at an access to the token of Client c
AtTokenWrite(p, c) ==
    procs[p].pc = "tokenWrite" /\ sessions[procs[p].call.s].Client = c
AtTokenRead(p, c) ==
    procs[p].pc \in { "tokenTest", "tokenRead" } /\ sessions[procs[p].call.s].Client = c

\* C29: there is no data race on the token of the Client: a goroutine at
\* its write of c.authToken (SetAuthenticated on the Session or on a clone
\* that shares the Client) is never there together with another goroutine
\* at a write of it, or at a read of it in Do.
C29_NoTokenRace ==
    \A c \in DOMAIN clients : \A p, q \in Procs :
        (p # q /\ AtTokenWrite(p, c)) => ~(AtTokenWrite(q, c) \/ AtTokenRead(q, c))

====
